---------------------------- MODULE Spec2Model ----------------------------
(***************************************************************************)
(* A model of the symbol index of intelephense 0.8.8: SymbolTable,         *)
(* SymbolStore (src/src/symbolStore.ts) and TypeAggregate                  *)
(* (src/unnamed/part_000).                                                 *)
(*                                                                         *)
(* A symbol tree is kept as the pre-order sequence of its nodes; each node *)
(* carries its own id and the id of its parent (0 for the root), so that   *)
(* "children of n" are the nodes whose parent is n.id, in sequence order.  *)
(* Strings are sequences of one-character strings, so that toLowerCase,    *)
(* slice and split are computed rather than assumed.                       *)
(***************************************************************************)
EXTENDS Integers, Sequences, FiniteSets, TLC

(***************************************************************************)
(* Bounds of the model.                                                    *)
(***************************************************************************)
\* documents (URIs); a URI is represented by the integer uriMap.id gives it
MaxUri == 2
\* cap of the running symbol count (the count can drift upwards for ever)
MaxSymbolCount == 6

Uris == 1..MaxUri

(***************************************************************************)
(* Strings.                                                                *)
(***************************************************************************)
\* null / undefined: an absent object
Null == [null |-> TRUE]

\* the letters of the model's alphabet
LowerCase ==
    <<"a", "b", "c", "d", "e", "f", "g", "h", "i", "j", "k", "l", "m",
      "n", "o", "p", "q", "r", "s", "t", "u", "v", "w", "x", "y", "z">>

UpperCase ==
    <<"A", "B", "C", "D", "E", "F", "G", "H", "I", "J", "K", "L", "M",
      "N", "O", "P", "Q", "R", "S", "T", "U", "V", "W", "X", "Y", "Z">>

\* the position of c in the sequence letters, 0 when it is not in it
LetterIndex(letters, c) ==
    IF \E i \in 1..Len(letters) : letters[i] = c
    THEN CHOOSE i \in 1..Len(letters) : letters[i] = c
    ELSE 0

\* String.prototype.toLowerCase on one character
ToLowerChar(c) ==
    IF LetterIndex(UpperCase, c) > 0 THEN LowerCase[LetterIndex(UpperCase, c)] ELSE c

ToLower(s) == [i \in 1..Len(s) |-> ToLowerChar(s[i])]

\* s.slice(0, p.length) === p
StartsWith(s, p) == Len(p) <= Len(s) /\ SubSeq(s, 1, Len(p)) = p

\* index of the first occurrence of character sep in s, 0 when there is none
RECURSIVE IndexOfChar(_, _, _)
IndexOfChar(s, sep, i) ==
    IF i > Len(s) THEN 0
    ELSE IF s[i] = sep THEN i
    ELSE IndexOfChar(s, sep, i + 1)

\* String.prototype.split(sep): the pieces between separators, empty ones kept
RECURSIVE Split(_, _)
Split(s, sep) ==
    LET i == IndexOfChar(s, sep, 1) IN
    IF i = 0 THEN <<s>>
    ELSE <<SubSeq(s, 1, i - 1)>> \o Split(SubSeq(s, i + 1, Len(s)), sep)

NonEmpty(s) == Len(s) > 0

\* order of characters used to keep the index keys sorted: punctuation
\* before letters, and a letter in lower case before the same in upper case
CharRank(c) ==
    IF LetterIndex(LowerCase, c) > 0 THEN 2 * LetterIndex(LowerCase, c)
    ELSE IF LetterIndex(UpperCase, c) > 0 THEN 2 * LetterIndex(UpperCase, c) + 1
    ELSE 1

\* Intl.Collator.compare(a, b) < 0
RECURSIVE KeyLess(_, _)
KeyLess(a, b) ==
    IF Len(b) = 0 THEN FALSE
    ELSE IF Len(a) = 0 THEN TRUE
    ELSE IF a[1] # b[1] THEN CharRank(a[1]) < CharRank(b[1])
    ELSE KeyLess(Tail(a), Tail(b))

(***************************************************************************)
(* Sequences.                                                              *)
(***************************************************************************)
Range(s) == {s[i] : i \in 1..Len(s)}

\* Array.prototype.indexOf, 1-based; 0 when x is not in s
RECURSIVE IndexOf(_, _, _)
IndexOf(s, x, i) ==
    IF i > Len(s) THEN 0
    ELSE IF s[i] = x THEN i
    ELSE IndexOf(s, x, i + 1)

RemoveAt(s, i) == SubSeq(s, 1, i - 1) \o SubSeq(s, i + 1, Len(s))

InsertAt(s, i, x) == SubSeq(s, 1, i - 1) \o <<x>> \o SubSeq(s, i, Len(s))

\* Array.from(new Set(s)): first occurrences, in order
RECURSIVE Unique(_)
Unique(s) ==
    IF s = <<>> THEN <<>>
    ELSE LET r == Unique(SubSeq(s, 1, Len(s) - 1)) IN
         IF s[Len(s)] \in Range(r) THEN r ELSE Append(r, s[Len(s)])

NoDuplicates(s) == \A i, j \in 1..Len(s) : s[i] = s[j] => i = j

(***************************************************************************)
(* Symbols.                                                                *)
(***************************************************************************)
ClassLikeKinds == {"Class", "Interface", "Trait"}

Position(l, c) == [line |-> l, character |-> c]

NoLocation == Null

\* a node of a symbol tree before it is placed in a document
Sym(id, parent, kind, name, modifiers, range, associated, doc) ==
    [id |-> id, parent |-> parent, kind |-> kind, name |-> name,
     modifiers |-> modifiers, range |-> range, associated |-> associated,
     doc |-> doc]

Stub(kind, name) == [kind |-> kind, name |-> name]

NoDoc == Null
NoRange == <<>>

\* util.isInRange: 0 inside, -1 before the start, 1 after the end
isInRange(pos, range) ==
    IF pos.line < range.start.line
       \/ (pos.line = range.start.line /\ pos.character < range.start.character)
    THEN -1
    ELSE IF pos.line > range.end.line
            \/ (pos.line = range.end.line /\ pos.character > range.end.character)
    THEN 1
    ELSE 0

(***************************************************************************)
(* The symbol trees the extraction pass hands over.  Each is the tree of   *)
(* a small PHP document.                                                   *)
(***************************************************************************)
FileRoot == Sym(1, 0, "File", <<>>, {}, <<0, 0, 9, 9>>, <<>>, NoDoc)

\* <?php function f($p) { $v = 1; }
ShapeFn ==
    << FileRoot,
       Sym(2, 1, "Function", <<"f">>, {}, <<1, 0, 3, 0>>, <<>>, NoDoc),
       Sym(3, 2, "Parameter", <<"p">>, {}, <<1, 2, 1, 3>>, <<>>, NoDoc),
       Sym(4, 2, "Variable", <<"v">>, {}, <<2, 0, 2, 1>>, <<>>, NoDoc) >>

\* <?php use X as b; class A extends B { function k() {} }
ShapeA ==
    << FileRoot,
       Sym(4, 1, "Class", <<"b">>, {"Use"}, <<0, 1, 0, 5>>, <<>>, NoDoc),
       Sym(2, 1, "Class", <<"A">>, {}, <<1, 0, 5, 0>>,
           <<Stub("Class", <<"B">>)>>, NoDoc),
       Sym(3, 2, "Method", <<"k">>, {"Public"}, <<2, 0, 3, 0>>, <<>>, NoDoc) >>

\* <?php class B extends a { function K() {} }
ShapeB ==
    << FileRoot,
       Sym(2, 1, "Class", <<"B">>, {}, <<1, 0, 5, 0>>,
           <<Stub("Class", <<"a">>)>>, NoDoc),
       Sym(3, 2, "Method", <<"K">>, {"Public"}, <<2, 0, 3, 0>>, <<>>, NoDoc) >>

\* <?php namespace a\b; interface A extends A {}  const F = 1;
ShapeNs ==
    << FileRoot,
       Sym(2, 1, "Namespace", <<"a", "\\", "b">>, {}, <<0, 1, 0, 5>>, <<>>, NoDoc),
       Sym(3, 1, "Interface", <<"A">>, {}, <<1, 0, 2, 0>>,
           <<Stub("Interface", <<"A">>)>>, NoDoc),
       Sym(4, 1, "Constant", <<"F">>, {}, <<4, 0, 4, 1>>, <<>>, NoDoc) >>

\* a tree in the style of the built-in symbols: the root has kind None and
\* the class carries no location
ShapeNoLoc ==
    << Sym(1, 0, "None", <<>>, {}, <<0, 0, 9, 9>>, <<>>, NoDoc),
       Sym(2, 1, "Function", <<"k">>, {}, <<1, 0, 3, 0>>, <<>>, NoDoc),
       Sym(3, 1, "Class", <<"B">>, {}, NoRange, <<>>, NoDoc) >>

ShapeIds == {"fn", "A", "B", "ns", "noloc"}

Shape(sh) ==
    CASE sh = "fn" -> ShapeFn
      [] sh = "A" -> ShapeA
      [] sh = "B" -> ShapeB
      [] sh = "ns" -> ShapeNs
      [] sh = "noloc" -> ShapeNoLoc

\* HashedLocation.create(uriHash, range)
HashedLocation(uriHash, r) ==
    [uriHash |-> uriHash,
     range |-> [start |-> Position(r[1], r[2]), end |-> Position(r[3], r[4])]]

\* the scope the extraction pass gives a node: the name of the type or
\* function that owns it
ScopeName(shape, n) ==
    LET owners == SelectSeq(shape, LAMBDA o : o.id = n.parent) IN
    IF owners # <<>> /\ owners[1].kind \in ClassLikeKinds \cup {"Function", "Method"}
    THEN owners[1].name
    ELSE <<>>

\* a node as placed in the document uri: its location carries the uri's hash;
\* field table stands for the identity of the object (two nodes are the same
\* object exactly when they have the same table and id)
PhpSymbol(uri, shape, n) ==
    [table |-> uri, id |-> n.id, parent |-> n.parent, kind |-> n.kind,
     name |-> n.name, modifiers |-> n.modifiers, scope |-> ScopeName(shape, n),
     location |-> IF n.range = NoRange THEN NoLocation
                  ELSE HashedLocation(uri, n.range),
     associated |-> n.associated, doc |-> n.doc]

\* new SymbolTable(uri, root)
SymbolTable(uri, sh) ==
    [uri |-> uri,
     nodes |-> [i \in 1..Len(Shape(sh)) |-> PhpSymbol(uri, Shape(sh), Shape(sh)[i])]]

NoTable == Null

(***************************************************************************)
(* The symbol trees of a type hierarchy in two documents:                  *)
(*   class C extends B implements I, class B extends A, class A            *)
(*   interface I extends J, interface J                                    *)
(* Each type may declare a method m, and C a method toString; A may name C *)
(* as its base class.                                                      *)
(***************************************************************************)
\* how a type declares m: not at all, public, private, as a magic method
\* (an @method tag, with its description), or public with a doc-comment
MemberProfiles == {"none", "public", "private", "magic", "doc"}

InterfaceProfiles == {"none", "public"}

ProfileModifiers(profile) ==
    CASE profile = "private" -> {"Private"}
      [] profile = "magic" -> {"Public", "Magic"}
      [] OTHER -> {"Public"}

ProfileDoc(profile) ==
    IF profile \in {"magic", "doc"} THEN [description |-> <<"d">>] ELSE NoDoc

\* the method nodes of the type node with id type
Method(type, slot, name, profile) ==
    IF profile = "none" THEN <<>>
    ELSE <<Sym(type + slot, type, "Method", name, ProfileModifiers(profile),
               <<type + slot, 0, type + slot, 1>>, <<>>, ProfileDoc(profile))>>

\* a type node with its methods
Type(id, kind, name, associated, m, toString) ==
    <<Sym(id, 1, kind, name, {}, <<id, 0, id + 5, 0>>, associated, NoDoc)>>
        \o Method(id, 1, <<"m">>, m)
        \o Method(id, 2, <<"t", "o", "S", "t", "r", "i", "n", "g">>, toString)

HierarchyRoot == Sym(1, 0, "File", <<>>, {}, <<0, 0, 99, 0>>, <<>>, NoDoc)

\* h: the profiles of m in C, B, A, I, J and of toString in C, and whether
\* A extends C
ClassTree(h) ==
    <<HierarchyRoot>>
        \o Type(10, "Class", <<"C">>,
                <<Stub("Class", <<"B">>), Stub("Interface", <<"I">>)>>,
                h.c, h.toString)
        \o Type(20, "Class", <<"B">>, <<Stub("Class", <<"A">>)>>, h.b, "none")
        \o Type(30, "Class", <<"A">>,
                IF h.cyclic THEN <<Stub("Class", <<"C">>)>> ELSE <<>>, h.a, "none")

InterfaceTree(h) ==
    <<HierarchyRoot>>
        \o Type(10, "Interface", <<"I">>, <<Stub("Interface", <<"J">>)>>, h.i, "none")
        \o Type(20, "Interface", <<"J">>, <<>>, h.j, "none")

Hierarchies ==
    [c : MemberProfiles, b : MemberProfiles, a : MemberProfiles,
     i : InterfaceProfiles, j : InterfaceProfiles,
     toString : {"none", "public", "private"}, cyclic : BOOLEAN]

\* the names a member is declared with: they differ in case only
MemberNames == {<<"k">>, <<"K">>}

\* a class with a method, a property and a class constant, named as n says
ClassWithMembers(id, name, associated, n) ==
    << Sym(id, 1, "Class", name, {}, <<id, 0, id + 5, 0>>, associated, NoDoc),
       Sym(id + 1, id, "Method", n.method, {"Public"},
           <<id + 1, 0, id + 1, 1>>, <<>>, NoDoc),
       Sym(id + 2, id, "Property", n.property, {"Public"},
           <<id + 2, 0, id + 2, 1>>, <<>>, NoDoc),
       Sym(id + 3, id, "ClassConstant", n.constant, {"Public"},
           <<id + 3, 0, id + 3, 1>>, <<>>, NoDoc) >>

MemberNamings == [method : MemberNames, property : MemberNames, constant : MemberNames]

\* <?php class A extends B { use T; ... } class B { ... }
MemberTree(a, b) ==
    <<HierarchyRoot>>
        \o ClassWithMembers(10, <<"A">>,
                            <<Stub("Class", <<"B">>), Stub("Trait", <<"T">>)>>, a)
        \o ClassWithMembers(20, <<"B">>, <<>>, b)

\* how the trait declares its method: its name, and private or public
TraitShapes == [name : MemberNames, private : BOOLEAN]

\* <?php trait T { function k() {} }
TraitTree(t) ==
    << HierarchyRoot,
       Sym(10, 1, "Trait", <<"T">>, {}, <<10, 0, 15, 0>>, <<>>, NoDoc),
       Sym(11, 10, "Method", t.name, IF t.private THEN {"Private"} ELSE {"Public"},
           <<11, 0, 11, 1>>, <<>>, NoDoc) >>

\* The tree of a document with nested scopes, a namespace and a use rule:
\*   0: <?php namespace N;
\*   1: use X as c; class P {}
\*   2: function f() {
\*   3:     $g = function () {          (or a named function g)
\*   4:         new class I {           (or function I, or nothing)
\*   5:             function m() {}
\*   6:         };
\*   7:     };
\*   8: }
\*   9: class Q { function n() {} }
\* d.anonymous: the function of line 3 is anonymous; d.inner: the kind of
\* the node of line 4 ("none": there is none); d.use: the node c of line 1
\* is a use rule, otherwise a class
ScopeTree(d) ==
    << Sym(1, 0, "File", <<>>, {}, <<0, 0, 10, 0>>, <<>>, NoDoc),
       Sym(2, 1, "Namespace", <<"N">>, {}, <<0, 6, 0, 9>>, <<>>, NoDoc),
       Sym(3, 1, "Class", <<"c">>, IF d.use THEN {"Use"} ELSE {},
           <<1, 0, 1, 4>>, <<>>, NoDoc),
       Sym(4, 1, "Class", <<"P">>, {}, <<1, 6, 1, 9>>, <<>>, NoDoc),
       Sym(5, 1, "Function", <<"f">>, {}, <<2, 0, 8, 0>>, <<>>, NoDoc),
       Sym(6, 5, "Function", IF d.anonymous THEN <<>> ELSE <<"g">>,
           IF d.anonymous THEN {"Anonymous"} ELSE {}, <<3, 0, 7, 0>>, <<>>, NoDoc) >>
    \o (IF d.inner = "none" THEN <<>>
        ELSE << Sym(7, 6, d.inner, <<"I">>, {}, <<4, 0, 6, 0>>, <<>>, NoDoc) >>
             \o (IF d.inner = "Class"
                 THEN << Sym(8, 7, "Method", <<"m">>, {"Public"},
                             <<5, 0, 5, 9>>, <<>>, NoDoc) >>
                 ELSE <<>>))
    \o << Sym(9, 1, "Class", <<"Q">>, {}, <<9, 0, 9, 9>>, <<>>, NoDoc),
          Sym(10, 9, "Method", <<"n">>, {"Public"}, <<9, 3, 9, 7>>, <<>>, NoDoc) >>

ScopeDocuments == [anonymous : BOOLEAN, inner : {"Class", "Function", "none"}, use : BOOLEAN]

\* new SymbolTable(uri, root) for the tree given as its node sequence
SymbolTableOfTree(uri, tree) ==
    [uri |-> uri, nodes |-> [n \in 1..Len(tree) |-> PhpSymbol(uri, tree, tree[n])]]

(***************************************************************************)
(* SymbolTable                                                             *)
(***************************************************************************)
\* get symbols: the pre-order array without the root
Symbols(t) == Tail(t.nodes)

\* get symbolCount without the subtraction for the root
SymbolCountWithRoot(t) == Len(t.nodes)

\* get symbolCount: traverser.count() - 1
SymbolCount(t) == Len(t.nodes) - 1

\* the node with the given id, or Null
NodeById(t, id) ==
    IF \E i \in 1..Len(t.nodes) : t.nodes[i].id = id
    THEN t.nodes[CHOOSE i \in 1..Len(t.nodes) : t.nodes[i].id = id]
    ELSE Null

\* node.children, in source order
Children(t, n) == SelectSeq(t.nodes, LAMBDA c : c.parent = n.id)

\* ScopedVariablePruneVisitor._isNotVar applied to the children of a
\* Function or Method node: TRUE for the nodes that stay
PruneKeeps(t, n) ==
    LET p == NodeById(t, n.parent) IN
    ~(n.kind = "Variable" /\ p # Null /\ p.kind \in {"Function", "Method"})

\* n is in the tree after the filter: neither n nor a node above it was
\* filtered out of the children of its parent
RECURSIVE StaysInTree(_, _)
StaysInTree(t, n) ==
    /\ PruneKeeps(t, n)
    /\ n.parent = 0 \/ StaysInTree(t, NodeById(t, n.parent))

\* pruneScopedVars
PruneScopedVars(t) ==
    [t EXCEPT !.nodes = SelectSeq(t.nodes, LAMBDA n : StaysInTree(t, n))]


\* FindByStartPositionTraverser.find(start, root): the first node, in
\* pre-order, whose location starts at start; Null when there is none
FindByStartPosition(start, t) ==
    LET hits == SelectSeq(t.nodes,
                    LAMBDA n : n.location # NoLocation /\ n.location.range.start = start)
    IN IF hits = <<>> THEN Null ELSE hits[1]

(***************************************************************************)
(* IndexableSymbolVisitor and KeyedHashedStartLocation                     *)
(***************************************************************************)
\* PhpSymbol.keys for a symbol that is not a namespace: its case-folded name
PhpSymbolKeys(s) == <<ToLower(s.name)>>

\* KeyedHashedStartLocation.keys.  For a namespace the Set starts with the
\* lower-cased name; Set.prototype.add.apply(keys, segments) calls
\* keys.add(segments[0], segments[1], ...) and add reads its first argument
\* only, so the first non-empty segment is the only one added.
SymbolKeys(s) ==
    IF s.kind = "Namespace"
    THEN LET lcName == ToLower(s.name)
             segments == SelectSeq(Split(lcName, "\\"), NonEmpty)
         IN Unique(<<lcName>> \o (IF segments = <<>> THEN <<>> ELSE <<segments[1]>>))
    ELSE PhpSymbolKeys(s)

\* KeyedHashedStartLocation.create; reading s.location.uriHash throws when
\* the symbol has no location (see CreateThrows)
KeyedHashedStartLocation(s) ==
    [keys |-> SymbolKeys(s),
     start |-> [uriHash |-> s.location.uriHash, start |-> s.location.range.start]]

CreateThrows(s) == s.location = NoLocation

\* the condition as it would be if parameters were indexed
IsIndexableWithParameters(node) ==
    /\ node.kind \notin {"File", "Variable"}
    /\ "Use" \notin node.modifiers
    /\ Len(node.name) > 0

\* the condition as it would be if a Variable that has a location were
\* indexed
IsIndexableLocatedVariables(node) ==
    /\ node.kind \notin {"Parameter", "File"}
    /\ node.kind = "Variable" => node.location # NoLocation
    /\ "Use" \notin node.modifiers
    /\ Len(node.name) > 0

\* the condition of IndexableSymbolVisitor.preorder
IsIndexable(node) ==
    /\ node.kind \notin {"Parameter", "File", "Variable"}
    /\ "Use" \notin node.modifiers
    /\ Len(node.name) > 0

\* symbolTable.traverse(new IndexableSymbolVisitor(id)) throws
IndexableThrows(t) ==
    \E i \in 1..Len(t.nodes) : IsIndexable(t.nodes[i]) /\ CreateThrows(t.nodes[i])

\* symbolTable.traverse(new IndexableSymbolVisitor(id)).items
IndexableItems(t) ==
    LET nodes == SelectSeq(t.nodes, IsIndexable)
    IN [i \in 1..Len(nodes) |-> KeyedHashedStartLocation(nodes[i])]

(***************************************************************************)
(* NameIndex: a sequence of nodes [key, items] sorted by key.              *)
(***************************************************************************)
\* the position of the node whose key is key, 0 when there is none
NodeFind(index, key) ==
    IF \E i \in 1..Len(index) : index[i].key = key
    THEN CHOOSE i \in 1..Len(index) : index[i].key = key
    ELSE 0

\* the insertion point of key
NodeRank(index, key) ==
    Cardinality({i \in 1..Len(index) : KeyLess(index[i].key, key)}) + 1

NameIndexAddKey(index, item, key) ==
    LET i == NodeFind(index, key) IN
    IF i > 0 THEN [index EXCEPT ![i].items = Append(@, item)]
    ELSE InsertAt(index, NodeRank(index, key), [key |-> key, items |-> <<item>>])

\* NameIndex.add(item, keys)
RECURSIVE NameIndexAdd(_, _, _)
NameIndexAdd(index, item, keys) ==
    IF keys = <<>> THEN index
    ELSE NameIndexAdd(NameIndexAddKey(index, item, keys[1]), item, Tail(keys))

NameIndexRemoveKey(index, item, key) ==
    LET i == NodeFind(index, key) IN
    IF i = 0 THEN index
    ELSE LET k == IndexOf(index[i].items, item, 1) IN
         IF k = 0 THEN index
         ELSE IF Len(index[i].items) = 1 THEN RemoveAt(index, i)
         ELSE [index EXCEPT ![i].items = RemoveAt(@, k)]

\* NameIndex.remove(item, keys)
RECURSIVE NameIndexRemove(_, _, _)
NameIndexRemove(index, item, keys) ==
    IF keys = <<>> THEN index
    ELSE NameIndexRemove(NameIndexRemoveKey(index, item, keys[1]), item, Tail(keys))

\* NameIndex.find(text): the items of the node whose key is the case-folded text
NameIndexFind(index, text) ==
    LET i == NodeFind(index, ToLower(text)) IN
    IF i = 0 THEN <<>> ELSE index[i].items

\* NameIndex.match(text): the items of the nodes whose key starts with the
\* case-folded text, in key order
RECURSIVE NameIndexMatchFrom(_, _, _)
NameIndexMatchFrom(index, lcText, i) ==
    IF i > Len(index) THEN <<>>
    ELSE (IF StartsWith(index[i].key, lcText) THEN index[i].items ELSE <<>>)
         \o NameIndexMatchFrom(index, lcText, i + 1)

NameIndexMatch(index, text) == NameIndexMatchFrom(index, ToLower(text), 1)

(***************************************************************************)
(* SymbolStore: add and remove.  A store is a record of its three fields;  *)
(* an operation yields the store it leaves and whether it threw.           *)
(***************************************************************************)
RECURSIVE IndexAddItems(_, _)
IndexAddItems(index, items) ==
    IF items = <<>> THEN index
    ELSE IndexAddItems(NameIndexAdd(index, items[1].start, items[1].keys), Tail(items))

RECURSIVE IndexRemoveItems(_, _)
IndexRemoveItems(index, items) ==
    IF items = <<>> THEN index
    ELSE IndexRemoveItems(NameIndexRemove(index, items[1].start, items[1].keys), Tail(items))

\* remove as it would be without the removeMany call: the entries of the
\* table stay in the index
StoreRemoveKeepsEntries(st, uri) ==
    LET symbolTable == st._tableIndex[uri] IN
    IF symbolTable = NoTable THEN [store |-> st, threw |-> FALSE]
    ELSE [store |-> [st EXCEPT !._tableIndex[uri] = NoTable,
                               !._symbolCount = @ - SymbolCount(symbolTable)],
          threw |-> FALSE]

\* remove as it would be without the update of _symbolCount
StoreRemoveKeepsCount(st, uri) ==
    LET symbolTable == st._tableIndex[uri] IN
    IF symbolTable = NoTable THEN [store |-> st, threw |-> FALSE]
    ELSE LET deleted == [st EXCEPT !._tableIndex[uri] = NoTable] IN
         IF IndexableThrows(symbolTable) THEN [store |-> deleted, threw |-> TRUE]
         ELSE [store |-> [deleted EXCEPT !._symbolIndex =
                             IndexRemoveItems(@, IndexableItems(symbolTable))],
               threw |-> FALSE]

\* SymbolStore.remove(uri)
StoreRemove(st, uri) ==
    LET symbolTable == st._tableIndex[uri] IN
    IF symbolTable = NoTable THEN [store |-> st, threw |-> FALSE]
    ELSE LET deleted == [st EXCEPT !._tableIndex[uri] = NoTable] IN
         IF IndexableThrows(symbolTable) THEN [store |-> deleted, threw |-> TRUE]
         ELSE [store |-> [deleted EXCEPT
                            !._symbolIndex = IndexRemoveItems(@, IndexableItems(symbolTable)),
                            !._symbolCount = @ - SymbolCount(symbolTable)],
               threw |-> FALSE]

\* SymbolStore.add(symbolTable)
StoreAdd(st, symbolTable) ==
    LET removed == StoreRemove(st, symbolTable.uri) IN
    IF removed.threw THEN removed
    ELSE LET registered == [removed.store EXCEPT !._tableIndex[symbolTable.uri] = symbolTable] IN
         IF IndexableThrows(symbolTable) THEN [store |-> registered, threw |-> TRUE]
         ELSE [store |-> [registered EXCEPT
                            !._symbolIndex = IndexAddItems(@, IndexableItems(symbolTable)),
                            !._symbolCount = @ + SymbolCount(symbolTable)],
               threw |-> FALSE]

\* Intelephense.closeDocument: prune the table registered for uri, in place
StoreCloseDocument(st, uri) ==
    IF st._tableIndex[uri] = NoTable THEN st
    ELSE [st EXCEPT !._tableIndex[uri] = PruneScopedVars(@)]

\* new SymbolStore()
EmptyStore ==
    [_tableIndex |-> [u \in Uris |-> NoTable], _symbolIndex |-> <<>>, _symbolCount |-> 0]

\* get tableCount
TableCount(st) == Cardinality({u \in Uris : st._tableIndex[u] # NoTable})


\* the key Object.keys gives for the id of a table
TableKey(id) == ToString(id)

\* SymbolStore.toJSON() as written to the cache: the object _tableIndex is
\* the set of its own entries, a table is the object of its fields, and the
\* index is what NameIndex.toJSON gives
ToJSON(st) ==
    [_tableIndex |-> {[key |-> TableKey(u),
                       value |-> [_uri |-> st._tableIndex[u].uri,
                                  _root |-> st._tableIndex[u].nodes]] :
                          u \in {v \in Uris : st._tableIndex[v] # NoTable}},
     _symbolCount |-> st._symbolCount,
     _symbolIndex |-> [_nodeArray |-> st._symbolIndex]]

\* SymbolTable.fromData(data)
fromData(data) == [uri |-> data._uri, nodes |-> data._root]

\* restore as it would be without the assignment of _symbolCount
RestoreKeepsCount(st, data) ==
    [_tableIndex |->
        [u \in Uris |->
            IF \E e \in data._tableIndex : e.key = TableKey(u)
            THEN fromData((CHOOSE e \in data._tableIndex : e.key = TableKey(u)).value)
            ELSE NoTable],
     _symbolIndex |-> data._symbolIndex._nodeArray,
     _symbolCount |-> st._symbolCount]

\* SymbolStore.restore(data) on the store st
Restore(st, data) ==
    [_tableIndex |->
        [u \in Uris |->
            IF \E e \in data._tableIndex : e.key = TableKey(u)
            THEN fromData((CHOOSE e \in data._tableIndex : e.key = TableKey(u)).value)
            ELSE NoTable],
     _symbolIndex |-> data._symbolIndex._nodeArray,
     _symbolCount |-> data._symbolCount]

(***************************************************************************)
(* Predicates on symbols.  The closures the code passes around are kept as *)
(* data: the kinds accepted, how the name is compared (any, exact, lower)  *)
(* and, when fixed, the modifiers.  NoFilter is an absent predicate.       *)
(***************************************************************************)
AllKinds ==
    {"None", "Class", "Interface", "Trait", "Constant", "Property", "Method",
     "Function", "Parameter", "Variable", "Namespace", "ClassConstant",
     "Constructor", "File"}

Pred(kinds, nameMode, name, fixMods, modifiers) ==
    [none |-> FALSE, kinds |-> kinds, nameMode |-> nameMode, name |-> name,
     fixMods |-> fixMods, modifiers |-> modifiers]

NoFilter ==
    [none |-> TRUE, kinds |-> {}, nameMode |-> "any", name |-> <<>>,
     fixMods |-> FALSE, modifiers |-> {}]

KindFilter(kinds) == Pred(kinds, "any", <<>>, FALSE, {})

\* PhpSymbol.isClassLike
isClassLike == KindFilter(ClassLikeKinds)

\* predicate(x), for a predicate that is present
Accepts(p, x) ==
    /\ x.kind \in p.kinds
    /\ \/ p.nameMode = "any"
       \/ p.nameMode = "exact" /\ x.name = p.name
       \/ p.nameMode = "lower" /\ ToLower(x.name) = p.name
    /\ p.fixMods => x.modifiers = p.modifiers

\* (!filter || filter(x))
Passes(p, x) == p.none \/ Accepts(p, x)

(***************************************************************************)
(* SymbolStore: find and match                                             *)
(***************************************************************************)
\* this._tableIndex[id]
TableAt(st, id) == IF id \in Uris THEN st._tableIndex[id] ELSE NoTable

\* SymbolStore._indexResultToSymbols: reading table.root throws when no
\* table is registered for an item's uriHash
RECURSIVE IndexResultLoop(_, _, _)
IndexResultLoop(st, results, symbols) ==
    IF results = <<>> THEN [threw |-> FALSE, symbols |-> symbols]
    ELSE LET item == results[1]
             table == TableAt(st, item.uriHash)
         IN IF table = NoTable THEN [threw |-> TRUE, symbols |-> <<>>]
            ELSE LET s == FindByStartPosition(item.start, table)
                 IN IndexResultLoop(st, Tail(results),
                        IF s = Null \/ s \in Range(symbols) THEN symbols
                        ELSE Append(symbols, s))

IndexResultToSymbols(st, results) == IndexResultLoop(st, results, <<>>)

\* the condition of find's loop as it would be with every kind compared
\* case-insensitively
FindKeepsIgnoringCase(s, text, filter) ==
    Passes(filter, s) /\ ToLower(s.name) = ToLower(text)

\* the condition of the loop of SymbolStore.find
FindKeeps(s, text, filter) ==
    /\ Passes(filter, s)
    /\ \/ s.kind \in {"Constant", "Variable"} /\ s.name = text
       \/ s.kind \notin {"Constant", "Variable"} /\ ToLower(s.name) = ToLower(text)

\* SymbolStore.find(text, filter)
Find(st, text, filter) ==
    IF Len(text) = 0 THEN [threw |-> FALSE, symbols |-> <<>>]
    ELSE LET result == IndexResultToSymbols(st, NameIndexFind(st._symbolIndex, text))
         IN IF result.threw THEN result
            ELSE [threw |-> FALSE,
                  symbols |-> SelectSeq(result.symbols, LAMBDA s : FindKeeps(s, text, filter))]

\* match as it would be with the exact lookup of the index in place of the
\* prefix lookup
MatchExactKey(st, text, filter) ==
    IF Len(text) = 0 THEN [threw |-> FALSE, symbols |-> <<>>]
    ELSE LET matches == IndexResultToSymbols(st, NameIndexFind(st._symbolIndex, text))
         IN IF matches.threw \/ filter.none THEN matches
            ELSE [threw |-> FALSE,
                  symbols |-> SelectSeq(matches.symbols, LAMBDA s : Accepts(filter, s))]

\* match as it would be with the test of the filter inverted
MatchInvertedFilter(st, text, filter) ==
    IF Len(text) = 0 THEN [threw |-> FALSE, symbols |-> <<>>]
    ELSE LET matches == IndexResultToSymbols(st, NameIndexMatch(st._symbolIndex, text))
         IN IF matches.threw \/ filter.none THEN matches
            ELSE [threw |-> FALSE,
                  symbols |-> SelectSeq(matches.symbols, LAMBDA s : ~Accepts(filter, s))]

\* SymbolStore.match(text, filter)
Match(st, text, filter) ==
    IF Len(text) = 0 THEN [threw |-> FALSE, symbols |-> <<>>]
    ELSE LET matches == IndexResultToSymbols(st, NameIndexMatch(st._symbolIndex, text))
         IN IF matches.threw \/ filter.none THEN matches
            ELSE [threw |-> FALSE,
                  symbols |-> SelectSeq(matches.symbols, LAMBDA s : Accepts(filter, s))]

(***************************************************************************)
(* ScopeVisitor and SymbolTable.scope / absoluteScope                      *)
(***************************************************************************)
ScopeKinds == {"Class", "Interface", "Trait", "Function", "Method", "File"}

\* ScopeVisitor.preorder as it would be without the test of the Anonymous
\* modifier
ScopePreorderKeepsAnonymous(v, node, pos, absolute) ==
    IF node.location # NoLocation /\ node.location.range.start.line > pos.line
    THEN [v EXCEPT !.haltTraverse = TRUE]
    ELSE IF node.location = NoLocation \/ isInRange(pos, node.location.range) # 0
    THEN v
    ELSE IF node.kind \in ScopeKinds /\ "Use" \notin node.modifiers
    THEN [v EXCEPT !._scopeStack = Append(@, node), !.descend = @ \cup {node.id}]
    ELSE [v EXCEPT !.descend = @ \cup {node.id}]

\* ScopeVisitor.preorder on a node the traverser visits.  v is the visitor
\* with the set of nodes the traverser descends into.
ScopePreorder(v, node, pos, absolute) ==
    IF node.location # NoLocation /\ node.location.range.start.line > pos.line
    THEN [v EXCEPT !.haltTraverse = TRUE]
    ELSE IF node.location = NoLocation \/ isInRange(pos, node.location.range) # 0
    THEN v
    ELSE IF /\ node.kind \in ScopeKinds
            /\ "Use" \notin node.modifiers
            /\ (~absolute \/ node.kind # "Function" \/ "Anonymous" \notin node.modifiers)
    THEN [v EXCEPT !._scopeStack = Append(@, node), !.descend = @ \cup {node.id}]
    ELSE [v EXCEPT !.descend = @ \cup {node.id}]

\* TreeTraverser.traverse with a ScopeVisitor: pre-order, the children of a
\* node are visited when preorder returned true for it, and nothing is
\* visited once haltTraverse is set
RECURSIVE ScopeTraverse(_, _, _, _, _)
ScopeTraverse(v, nodes, i, pos, absolute) ==
    IF i > Len(nodes) \/ v.haltTraverse THEN v
    ELSE LET node == nodes[i]
             visited == node.parent = 0 \/ node.parent \in v.descend
         IN ScopeTraverse(IF visited THEN ScopePreorder(v, node, pos, absolute) ELSE v,
                          nodes, i + 1, pos, absolute)

ScopeVisit(t, pos, absolute) ==
    ScopeTraverse([haltTraverse |-> FALSE, _scopeStack |-> <<>>, descend |-> {}],
                  t.nodes, 1, pos, absolute)

\* get scope of the visitor: the top of the stack, undefined when it is empty
VisitorScope(v) ==
    IF v._scopeStack = <<>> THEN Null ELSE v._scopeStack[Len(v._scopeStack)]

\* SymbolTable.scope(pos)
Scope(t, pos) == VisitorScope(ScopeVisit(t, pos, FALSE))

\* SymbolTable.absoluteScope(pos)
AbsoluteScope(t, pos) == VisitorScope(ScopeVisit(t, pos, TRUE))


(***************************************************************************)
(* NameResolverVisitor and SymbolTable.nameResolver.  The NameResolver is  *)
(* kept as its rules, its namespace and its stack of classes; the visitor  *)
(* v carries it with the haltTraverse flag.                                *)
(***************************************************************************)
\* new NameResolver()
NewNameResolver == [rules |-> <<>>, namespace |-> Null, classStack |-> <<>>]

\* NameResolverVisitor._kindMask
RuleKinds == {"Class", "Function", "Constant"}

\* NameResolverVisitor.preorder: the visitor after the call
NameResolverPreorder(v, node, pos) ==
    IF node.location # NoLocation /\ node.location.range.start.line > pos.line
    THEN [v EXCEPT !.haltTraverse = TRUE]
    ELSE IF "Use" \in node.modifiers /\ node.kind \in RuleKinds
    THEN [v EXCEPT !.nameResolver.rules = Append(@, node)]
    ELSE IF node.kind = "Namespace"
    THEN [v EXCEPT !.nameResolver.namespace = node]
    ELSE IF node.kind = "Class"
    THEN [v EXCEPT !.nameResolver.classStack = Append(@, node)]
    ELSE v

\* NameResolverVisitor.postorder
NameResolverPostorder(v, node, pos) ==
    IF v.haltTraverse
       \/ (node.location # NoLocation /\ node.location.range.end.line > pos.line)
    THEN [v EXCEPT !.haltTraverse = TRUE]
    ELSE IF node.kind = "Class"
    THEN [v EXCEPT !.nameResolver.classStack =
                        IF @ = <<>> THEN @ ELSE SubSeq(@, 1, Len(@) - 1)]
    ELSE v

\* TreeTraverser.traverse with a NameResolverVisitor: preorder on the node,
\* then its children in order, then postorder; nothing more is called once
\* haltTraverse is set.  preorder returns true unless it halts.
RECURSIVE NameResolverTraverse(_, _, _, _)
RECURSIVE NameResolverTraverseAll(_, _, _, _)
NameResolverTraverse(t, v, node, pos) ==
    IF v.haltTraverse THEN v
    ELSE LET entered == NameResolverPreorder(v, node, pos) IN
         IF entered.haltTraverse THEN entered
         ELSE LET inside == NameResolverTraverseAll(t, entered, Children(t, node), pos) IN
              IF inside.haltTraverse THEN inside
              ELSE NameResolverPostorder(inside, node, pos)

NameResolverTraverseAll(t, v, nodes, pos) ==
    IF nodes = <<>> \/ v.haltTraverse THEN v
    ELSE NameResolverTraverseAll(t, NameResolverTraverse(t, v, nodes[1], pos),
                                 Tail(nodes), pos)

\* SymbolTable.nameResolver(pos)
nameResolver(t, pos) ==
    NameResolverTraverse(t, [haltTraverse |-> FALSE, nameResolver |-> NewNameResolver],
                         t.nodes[1], pos).nameResolver


(***************************************************************************)
(* TypeAggregate                                                           *)
(***************************************************************************)
\* the constructor's precondition fails: Error('Invalid Argument')
\* the constructor's test as it would be without the test of the kind
ConstructorThrowsOnMissing(symbol) == symbol = Null

\* new TypeAggregate(symbolStore, symbol) throws 'Invalid Argument'
ConstructorThrows(symbol) == symbol = Null \/ symbol.kind \notin ClassLikeKinds

\* one pass of the while loop of TypeAggregate._getAssociated; a is the loop
\* state: the list _associated built so far and the queue of stubs
AssociatedIter(st, a, excludeTraits) ==
    LET stub == Head(a.queue)
        rest == Tail(a.queue)
        found == Find(st, stub.name, isClassLike)
        symbol == IF found.symbols = <<>> THEN Null ELSE found.symbols[1]
    IN IF excludeTraits /\ stub.kind = "Trait" THEN [a EXCEPT !.queue = rest]
       ELSE IF found.threw THEN [a EXCEPT !.queue = <<>>, !.threw = TRUE]
       ELSE IF symbol = Null \/ IndexOf(a._associated, symbol, 1) > 0
       THEN [a EXCEPT !.queue = rest]
       ELSE [a EXCEPT !._associated = Append(@, symbol),
                      !.queue = rest \o symbol.associated]

\* a pass of the loop as it would be without the indexOf test
AssociatedPassRevisits(st, a) ==
    LET stub == Head(a.queue)
        rest == Tail(a.queue)
        found == Find(st, stub.name, isClassLike)
        symbol == IF found.symbols = <<>> THEN Null ELSE found.symbols[1]
    IN IF found.threw THEN [a EXCEPT !.queue = <<>>, !.threw = TRUE]
       ELSE IF symbol = Null THEN [a EXCEPT !.queue = rest]
       ELSE [a EXCEPT !._associated = Append(@, symbol),
                      !.queue = rest \o symbol.associated]

\* a pass of the loop for an aggregate made by TypeAggregate.create, which
\* passes no excludeTraits
AssociatedPass(st, a) == AssociatedIter(st, a, FALSE)

\* the loop state _getAssociated starts from
AssociatedStart(symbol) ==
    [_associated |-> <<>>, queue |-> symbol.associated, threw |-> FALSE]

RECURSIVE AssociatedLoop(_, _, _)
AssociatedLoop(st, a, excludeTraits) ==
    IF a.queue = <<>> THEN a
    ELSE AssociatedLoop(st, AssociatedIter(st, a, excludeTraits), excludeTraits)

\* TypeAggregate._getAssociated of a fresh aggregate
GetAssociated(st, symbol, excludeTraits) ==
    AssociatedLoop(st, AssociatedStart(symbol), excludeTraits)._associated

\* s.children of a symbol of a registered table
ChildrenOf(st, s) ==
    LET t == TableAt(st, s.table) IN
    IF t = NoTable THEN <<>> ELSE Children(t, s)

\* noPrivate of _classMembers
NoPrivate(predicate, x) == "Private" \notin x.modifiers /\ Passes(predicate, x)

\* TypeAggregate._interfaceMembers(interfaces, predicate)
RECURSIVE InterfaceMembers(_, _, _, _)
InterfaceMembers(st, interfaces, predicate, noPrivate) ==
    IF interfaces = <<>> THEN <<>>
    ELSE SelectSeq(ChildrenOf(st, interfaces[1]),
                   LAMBDA x : IF noPrivate THEN NoPrivate(predicate, x)
                              ELSE Passes(predicate, x))
         \o InterfaceMembers(st, Tail(interfaces), predicate, noPrivate)

\* description.toLowerCase().trim()
RECURSIVE Trim(_)
Trim(d) ==
    IF d = <<>> THEN d
    ELSE IF d[1] = " " THEN Trim(Tail(d))
    ELSE IF d[Len(d)] = " " THEN Trim(SubSeq(d, 1, Len(d) - 1))
    ELSE d

\* hasInheritdoc as it would be without toLowerCase and trim
hasInheritdocVerbatim(description) ==
    IF Len(description) = 0 THEN FALSE
    ELSE description \in
            {<<"@", "i", "n", "h", "e", "r", "i", "t", "d", "o", "c">>,
             <<"{", "@", "i", "n", "h", "e", "r", "i", "t", "d", "o", "c", "}">>}

\* TypeAggregate.hasInheritdoc
hasInheritdoc(description) ==
    IF Len(description) = 0 THEN FALSE
    ELSE Trim(ToLower(description)) \in
            {<<"@", "i", "n", "h", "e", "r", "i", "t", "d", "o", "c">>,
             <<"{", "@", "i", "n", "h", "e", "r", "i", "t", "d", "o", "c", "}">>}

\* names every JavaScript object inherits from Object.prototype: map[name] is
\* defined for them although the map holds no such member
ObjectPrototypeNames ==
    {<<"c", "o", "n", "s", "t", "r", "u", "c", "t", "o", "r">>,
     <<"t", "o", "S", "t", "r", "i", "n", "g">>,
     <<"v", "a", "l", "u", "e", "O", "f">>,
     <<"h", "a", "s", "O", "w", "n", "P", "r", "o", "p", "e", "r", "t", "y">>,
     <<"i", "s", "P", "r", "o", "t", "o", "t", "y", "p", "e", "O", "f">>,
     <<"t", "o", "L", "o", "c", "a", "l", "e", "S", "t", "r", "i", "n", "g">>,
     <<"p", "r", "o", "p", "e", "r", "t", "y", "I", "s", "E", "n", "u", "m", "e", "r", "a", "b", "l", "e">>}

MapIndex(map, name) ==
    IF \E i \in 1..Len(map) : map[i].name = name
    THEN CHOOSE i \in 1..Len(map) : map[i].name = name
    ELSE 0

\* the condition of _mergeMembers without its clause for
\* MemberMergeStrategy.Base
MergeStoresWithoutBase(map, s, strategy) ==
    LET i == MapIndex(map, s.name) IN
    IF i = 0
    THEN \/ s.name \notin ObjectPrototypeNames
         \/ strategy = "Documented" /\ s.doc # NoDoc
    ELSE LET mapped == map[i].symbol IN
         \/ "Magic" \in mapped.modifiers /\ "Magic" \notin s.modifiers
         \/ /\ strategy = "Documented"
            /\ (mapped.doc = NoDoc \/ hasInheritdoc(mapped.doc.description))
            /\ s.doc # NoDoc

\* the condition under which _mergeMembers stores s under its name; the map
\* is the sequence of its own entries in insertion order
MergeStores(map, s, strategy) ==
    LET i == MapIndex(map, s.name) IN
    IF i = 0
    THEN \/ s.name \notin ObjectPrototypeNames
         \/ strategy = "Documented" /\ s.doc # NoDoc
         \/ strategy = "Base"
    ELSE LET mapped == map[i].symbol IN
         \/ "Magic" \in mapped.modifiers /\ "Magic" \notin s.modifiers
         \/ /\ strategy = "Documented"
            /\ (mapped.doc = NoDoc \/ hasInheritdoc(mapped.doc.description))
            /\ s.doc # NoDoc
         \/ strategy = "Base"

RECURSIVE MergeLoop(_, _, _)
MergeLoop(map, symbols, strategy) ==
    IF symbols = <<>> THEN map
    ELSE LET s == symbols[1]
             i == MapIndex(map, s.name)
             next == IF ~MergeStores(map, s, strategy) THEN map
                     ELSE IF i = 0 THEN Append(map, [name |-> s.name, symbol |-> s])
                     ELSE [map EXCEPT ![i].symbol = s]
         IN MergeLoop(next, Tail(symbols), strategy)

\* _mergeMembers without the early return for MemberMergeStrategy.None
MergeMembersWithoutNone(symbols, strategy) ==
    LET map == MergeLoop(<<>>, symbols, strategy)
    IN [i \in 1..Len(map) |-> map[i].symbol]

\* TypeAggregate._mergeMembers(symbols, strategy)
MergeMembers(symbols, strategy) ==
    IF strategy = "None" THEN symbols
    ELSE LET map == MergeLoop(<<>>, symbols, strategy)
         IN [i \in 1..Len(map) |-> map[i].symbol]

\* the members the loop of _classMembers collects: the first element of
\* associated is filtered by the caller's predicate, the others by noPrivate
RECURSIVE ClassMemberLoop(_, _, _, _)
ClassMemberLoop(st, associated, predicate, first) ==
    IF associated = <<>> THEN <<>>
    ELSE LET s == associated[1] IN
         (IF s.kind = "Trait" THEN <<>>
          ELSE SelectSeq(ChildrenOf(st, s),
                         LAMBDA x : IF first THEN Passes(predicate, x)
                                    ELSE NoPrivate(predicate, x)))
         \o ClassMemberLoop(st, Tail(associated), predicate, FALSE)

\* _classMembers as it would be with the members of the traits merged with
\* the others
ClassMembersMergingTraits(st, associated, strategy, predicate) ==
    LET traits == SelectSeq(associated, LAMBDA s : s.kind = "Trait")
    IN MergeMembers(ClassMemberLoop(st, associated, predicate, TRUE)
                        \o InterfaceMembers(st, traits, predicate, TRUE),
                    strategy)

\* TypeAggregate._classMembers(associated, strategy, predicate)
ClassMembers(st, associated, strategy, predicate) ==
    LET traits == SelectSeq(associated, LAMBDA s : s.kind = "Trait")
    IN MergeMembers(ClassMemberLoop(st, associated, predicate, TRUE), strategy)
       \o InterfaceMembers(st, traits, predicate, TRUE)

\* TypeAggregate.members(mergeStrategy, predicate) of a fresh aggregate
Members(st, symbol, strategy, predicate) ==
    LET associated == <<symbol>> \o GetAssociated(st, symbol, FALSE) IN
    CASE symbol.kind = "Class" -> ClassMembers(st, associated, strategy, predicate)
      [] symbol.kind = "Interface" -> InterfaceMembers(st, associated, predicate, FALSE)
      [] symbol.kind = "Trait" -> InterfaceMembers(st, associated, predicate, FALSE)
      [] OTHER -> <<>>

\* TypeAggregate.create(symbolStore, fqn): the root symbol of the aggregate,
\* Null when there is none
Create(st, fqn) ==
    IF Len(fqn) = 0 THEN Null
    ELSE LET found == Find(st, fqn, isClassLike).symbols
         IN IF found = <<>> THEN Null ELSE found[1]

\* TypeAggregate.create throws: find throws, or the constructor does
AggregateCreateThrows(st, fqn) ==
    /\ Len(fqn) > 0
    /\ LET found == Find(st, fqn, isClassLike) IN
       found.threw \/ (found.symbols # <<>> /\ ConstructorThrows(found.symbols[1]))

(***************************************************************************)
(* SymbolStore: members and references                                     *)
(***************************************************************************)
\* TypeString.atomicClassArray: the class names of a union type-string
atomicClassArray(scope) == SelectSeq(Split(scope, "|"), NonEmpty)

RECURSIVE FindMembersLoop(_, _, _, _)
FindMembersLoop(st, fqnArray, strategy, predicate) ==
    IF fqnArray = <<>> THEN <<>>
    ELSE LET type == Create(st, fqnArray[1]) IN
         (IF type = Null THEN <<>> ELSE Members(st, type, strategy, predicate))
         \o FindMembersLoop(st, Tail(fqnArray), strategy, predicate)

\* findMembers as it would be without the Set: the concatenation as collected
FindMembersWithDuplicates(st, scope, strategy, predicate) ==
    FindMembersLoop(st, atomicClassArray(scope), strategy, predicate)

\* SymbolStore.findMembers(scope, memberMergeStrategy, predicate)
FindMembers(st, scope, strategy, predicate) ==
    Unique(FindMembersLoop(st, atomicClassArray(scope), strategy, predicate))


\* a Reference record
Reference(kind, name, altName, scope, uriHash, start) ==
    [kind |-> kind, name |-> name, altName |-> altName, scope |-> scope,
     location |-> [uriHash |-> uriHash, range |-> [start |-> start, end |-> start]]]

Returns(symbols) == [threw |-> FALSE, symbols |-> symbols]

Throws == [threw |-> TRUE, symbols |-> <<>>]

\* the default as it would be with Override in the place of None
StrategyOrOverride(strategy) == IF strategy = "undefined" THEN "Override" ELSE strategy

\* memberMergeStrategy || MemberMergeStrategy.None
StrategyOrNone(strategy) == IF strategy = "undefined" THEN "None" ELSE strategy

\* the Variable / Parameter case as it would be with names compared
\* without regard to case
FindVariableIgnoringCase(st, ref) ==
    LET table == TableAt(st, ref.location.uriHash) IN
    IF table = NoTable THEN Returns(<<>>)
    ELSE LET scope == Scope(table, ref.location.range.start) IN
         IF scope = Null THEN Throws
         ELSE LET hits == SelectSeq(Children(table, scope),
                              LAMBDA x : x.kind \in {"Parameter", "Variable"}
                                         /\ ToLower(x.name) = ToLower(ref.name))
              IN Returns(IF hits = <<>> THEN <<>> ELSE <<hits[1]>>)

\* the Variable / Parameter case of findSymbolsByReference; scope.children
\* throws when table.scope found no scope
FindVariable(st, ref) ==
    LET table == TableAt(st, ref.location.uriHash) IN
    IF table = NoTable THEN Returns(<<>>)
    ELSE LET scope == Scope(table, ref.location.range.start) IN
         IF scope = Null THEN Throws
         ELSE LET hits == SelectSeq(Children(table, scope),
                              LAMBDA x : x.kind \in {"Parameter", "Variable"}
                                         /\ x.name = ref.name)
              IN Returns(IF hits = <<>> THEN <<>> ELSE <<hits[1]>>)

\* the Function / Constant case as it would be with altName looked up
\* whenever it is set
FindFunctionOrConstantAltFirst(st, ref) ==
    IF Len(ref.altName) > 0 THEN Find(st, ref.altName, KindFilter({ref.kind}))
    ELSE Find(st, ref.name, KindFilter({ref.kind}))

\* the Function / Constant case of findSymbolsByReference
FindFunctionOrConstant(st, ref) ==
    LET symbols == Find(st, ref.name, KindFilter({ref.kind})) IN
    IF ~symbols.threw /\ Len(symbols.symbols) < 1 /\ Len(ref.altName) > 0
    THEN Find(st, ref.altName, KindFilter({ref.kind}))
    ELSE symbols

\* SymbolStore.findSymbolsByReference(ref, memberMergeStrategy)
FindSymbolsByReference(st, ref, strategy) ==
    IF ref = Null THEN Returns(<<>>)
    ELSE CASE ref.kind \in {"Class", "Interface", "Trait"} ->
                Find(st, ref.name, KindFilter(ClassLikeKinds))
           [] ref.kind \in {"Function", "Constant"} ->
                FindFunctionOrConstant(st, ref)
           [] ref.kind = "Method" ->
                Returns(FindMembers(st, ref.scope, StrategyOrNone(strategy),
                            Pred({"Method"}, "lower", ToLower(ref.name), FALSE, {})))
           [] ref.kind = "Property" ->
                Returns(FindMembers(st, ref.scope, StrategyOrNone(strategy),
                            Pred({"Property"}, "exact", ref.name, FALSE, {})))
           [] ref.kind = "ClassConstant" ->
                Returns(FindMembers(st, ref.scope, StrategyOrNone(strategy),
                            Pred({"ClassConstant"}, "exact", ref.name, FALSE, {})))
           [] ref.kind \in {"Variable", "Parameter"} ->
                FindVariable(st, ref)
           [] ref.kind = "Constructor" ->
                Returns(FindMembers(st, ref.name, StrategyOrNone(strategy),
                            Pred({"Method"}, "lower",
                                 <<"_", "_", "c", "o", "n", "s", "t", "r", "u", "c", "t">>,
                                 FALSE, {})))
           [] OTHER -> Returns(<<>>)

\* findBaseMember asking findMembers for MemberMergeStrategy.Override
FindBaseMemberOverride(st, symbol) ==
    IF \/ symbol = Null
       \/ Len(symbol.scope) = 0
       \/ symbol.kind \notin {"Property", "Method", "ClassConstant"}
       \/ "Private" \in symbol.modifiers
    THEN symbol
    ELSE LET fn == IF symbol.kind = "Method"
                   THEN Pred({symbol.kind}, "lower", ToLower(symbol.name), TRUE, symbol.modifiers)
                   ELSE Pred({symbol.kind}, "exact", symbol.name, TRUE, symbol.modifiers)
             found == FindMembers(st, symbol.scope, "Override", fn)
         IN IF found = <<>> THEN symbol ELSE found[1]

\* SymbolStore.findBaseMember(symbol)
FindBaseMember(st, symbol) ==
    IF \/ symbol = Null
       \/ Len(symbol.scope) = 0
       \/ symbol.kind \notin {"Property", "Method", "ClassConstant"}
       \/ "Private" \in symbol.modifiers
    THEN symbol
    ELSE LET fn == IF symbol.kind = "Method"
                   THEN Pred({symbol.kind}, "lower", ToLower(symbol.name), TRUE, symbol.modifiers)
                   ELSE Pred({symbol.kind}, "exact", symbol.name, TRUE, symbol.modifiers)
             found == FindMembers(st, symbol.scope, "Base", fn)
         IN IF found = <<>> THEN symbol ELSE found[1]


(***************************************************************************)
(* The state machine.  The program is single-threaded: a call runs to      *)
(* completion and returns before the next one starts.  last holds the call *)
(* that has just run with what it returned, NoCall once the caller has     *)
(* taken the answer; agg is the TypeAggregate of the call in progress;     *)
(* snap is the store as it was before the call that has just changed it,   *)
(* with the table the call was given or worked on.                         *)
(***************************************************************************)
VARIABLES _tableIndex, _symbolIndex, _symbolCount, agg, last, snap

vars == <<_tableIndex, _symbolIndex, _symbolCount, agg, last, snap>>

Store ==
    [_tableIndex |-> _tableIndex, _symbolIndex |-> _symbolIndex,
     _symbolCount |-> _symbolCount]

SetStore(st) ==
    /\ _tableIndex' = st._tableIndex
    /\ _symbolIndex' = st._symbolIndex
    /\ _symbolCount' = st._symbolCount

\* a call: its name and arguments, whether a table was registered for uri
\* when it started (had), whether it threw and the symbols it returned
Call(op, uri, had, text, filter, ref, threw, symbols) ==
    [op |-> op, uri |-> uri, had |-> had, text |-> text, filter |-> filter,
     ref |-> ref, threw |-> threw, symbols |-> symbols]

NoCall == Call("none", 0, FALSE, <<>>, NoFilter, Null, FALSE, <<>>)

NoSnap == Null

NoAgg ==
    [pc |-> "none", symbol |-> Null, resolved |-> FALSE,
     a |-> [_associated |-> <<>>, queue |-> <<>>, threw |-> FALSE]]

\* the texts, filters and references the queries are called with
Texts == {<<>>, <<"a">>, <<"A">>, <<"b">>, <<"f">>, <<"F">>, <<"k">>, <<"a", "\\">>}

Filters == {NoFilter, KindFilter({"Class", "Constant"})}

Strategies == {"undefined", "Override"}

NamedRefs ==
    {Reference(k, n, alt, <<>>, 1, Position(0, 0)) :
        k \in {"Class", "Function", "Constant", "Namespace"},
        n \in {<<"a">>, <<"F">>},
        alt \in {<<>>, <<"f">>, <<"F">>}}

MemberRefs ==
    {Reference(k, n, <<>>, sc, 1, Position(0, 0)) :
        k \in {"Method", "Property", "Constructor"},
        n \in {<<"K">>, <<"A">>},
        sc \in {<<>>, <<"A", "|", "b">>}}

VariableRefs ==
    {Reference(k, n, <<>>, <<>>, u, Position(l, 0)) :
        k \in {"Variable", "Parameter"}, n \in {<<"v">>, <<"V">>, <<"p">>},
        u \in Uris, l \in {2, 5, 10}}

ReferenceCalls ==
    (({Null} \cup NamedRefs \cup VariableRefs) \X {"undefined"})
        \cup (MemberRefs \X Strategies)

Init ==
    /\ _tableIndex = EmptyStore._tableIndex
    /\ _symbolIndex = EmptyStore._symbolIndex
    /\ _symbolCount = EmptyStore._symbolCount
    /\ agg = NoAgg
    /\ last = NoCall
    /\ snap = NoSnap

\* no call is in progress and the last answer has been taken
Ready == last = NoCall

\* symbolStore.add(new SymbolTable(uri, ...)): openDocument, discoverSymbols
Add(uri, sh) ==
    LET r == StoreAdd(Store, SymbolTable(uri, sh)) IN
    /\ Ready
    /\ r.store._symbolCount <= MaxSymbolCount
    /\ SetStore(r.store)
    /\ last' = Call("add", uri, _tableIndex[uri] # NoTable, <<>>, NoFilter, Null,
                    r.threw, <<>>)
    /\ snap' = [store |-> Store, table |-> SymbolTable(uri, sh)]
    /\ UNCHANGED agg

\* symbolStore.remove(uri): forget.  It may be the call that follows
\* add(T) with T.uri = uri, and then the store from before the add is kept.
Remove(uri) ==
    LET r == StoreRemove(Store, uri)
        afterAdd == last.op = "add" /\ last.uri = uri
    IN /\ Ready \/ afterAdd
       /\ SetStore(r.store)
       /\ last' = Call(IF afterAdd THEN "add;remove" ELSE "remove", uri,
                       _tableIndex[uri] # NoTable, <<>>, NoFilter, Null, r.threw, <<>>)
       /\ snap' = IF afterAdd THEN snap ELSE NoSnap
       /\ UNCHANGED agg

\* closeDocument(uri) on a document that has a table
CloseDocument(uri) ==
    /\ Ready
    /\ _tableIndex[uri] # NoTable
    /\ SetStore(StoreCloseDocument(Store, uri))
    /\ last' = Call("closeDocument", uri, TRUE, <<>>, NoFilter, Null, FALSE, <<>>)
    /\ snap' = [store |-> Store, table |-> _tableIndex[uri]]
    /\ UNCHANGED agg

\* a query: the store stays as it is and the answer is recorded
Query(op, text, filter, ref, result) ==
    /\ Ready
    /\ last' = Call(op, 0, FALSE, text, filter, ref, result.threw, result.symbols)
    /\ UNCHANGED <<_tableIndex, _symbolIndex, _symbolCount, agg, snap>>

CallFind(text, filter) ==
    Query("find", text, filter, Null, Find(Store, text, filter))

CallMatch(text, filter) ==
    Query("match", text, filter, Null, Match(Store, text, filter))

CallFindSymbolsByReference(ref, strategy) ==
    Query("findSymbolsByReference", <<>>, NoFilter, ref,
          FindSymbolsByReference(Store, ref, strategy))

\* TypeAggregate.create(symbolStore, fqn)
CallCreate(fqn) ==
    LET symbol == Create(Store, fqn) IN
    /\ Ready
    /\ agg' = IF symbol = Null THEN NoAgg
              ELSE [NoAgg EXCEPT !.pc = "idle", !.symbol = symbol]
    /\ last' = Call("create", 0, FALSE, fqn, NoFilter, Null,
                    AggregateCreateThrows(Store, fqn),
                    IF symbol = Null THEN <<>> ELSE <<symbol>>)
    /\ UNCHANGED <<_tableIndex, _symbolIndex, _symbolCount, snap>>

\* new TypeAggregate(symbolStore, symbol) called directly, with no symbol
\* or with a symbol of a registered table
CallConstruct(symbol) ==
    /\ Ready
    /\ last' = Call("construct", 0, FALSE, <<>>, NoFilter, Null,
                    ConstructorThrows(symbol),
                    IF symbol = Null THEN <<>> ELSE <<symbol>>)
    /\ UNCHANGED <<_tableIndex, _symbolIndex, _symbolCount, agg, snap>>

\* the symbols of the registered tables
StoreSymbols(st) ==
    UNION {Range(st._tableIndex[u].nodes) : u \in {v \in Uris : st._tableIndex[v] # NoTable}}

\* shutdown writes toJSON() to the cache and the next initialise restores a
\* new store from it
Restart ==
    /\ Ready
    /\ SetStore(Restore(EmptyStore, ToJSON(Store)))
    /\ last' = Call("restore", 0, FALSE, <<>>, NoFilter, Null, FALSE, <<>>)
    /\ snap' = [store |-> Store, table |-> NoTable]
    /\ UNCHANGED agg

\* associated() on the aggregate just created: the part of _getAssociated
\* before the loop
AssociatedBegin ==
    /\ agg.pc = "idle"
    /\ ~agg.resolved
    /\ agg' = [agg EXCEPT !.resolved = TRUE,
                          !.a = AssociatedStart(agg.symbol),
                          !.pc = IF agg.symbol.associated = <<>> THEN "idle"
                                 ELSE "running"]
    /\ UNCHANGED <<_tableIndex, _symbolIndex, _symbolCount, last, snap>>

\* one pass of the loop of _getAssociated; the call returns when the queue
\* is empty
AssociatedStep ==
    LET a == AssociatedPass(Store, agg.a) IN
    /\ agg.pc = "running"
    /\ agg' = [agg EXCEPT !.a = a, !.pc = IF a.queue = <<>> THEN "idle" ELSE "running"]
    /\ UNCHANGED <<_tableIndex, _symbolIndex, _symbolCount, last, snap>>

\* the call returns to its caller; the aggregate it built is dropped
Return ==
    /\ last # NoCall
    /\ agg.pc # "running"
    /\ last' = NoCall
    /\ agg' = NoAgg
    /\ snap' = NoSnap
    /\ UNCHANGED <<_tableIndex, _symbolIndex, _symbolCount>>

Next ==
    \/ \E uri \in Uris, sh \in ShapeIds : Add(uri, sh)
    \/ \E uri \in Uris : Remove(uri)
    \/ \E uri \in Uris : CloseDocument(uri)
    \/ \E text \in Texts, filter \in Filters : CallFind(text, filter)
    \/ \E text \in Texts, filter \in Filters : CallMatch(text, filter)
    \/ \E c \in ReferenceCalls : CallFindSymbolsByReference(c[1], c[2])
    \/ \E fqn \in Texts : CallCreate(fqn)
    \/ \E symbol \in {Null} \cup StoreSymbols(Store) : CallConstruct(symbol)
    \/ Restart
    \/ AssociatedBegin
    \/ AssociatedStep
    \/ Return

Spec == Init /\ [][Next]_vars

(***************************************************************************)
(* TypeAggregate.isBaseClass and isAssociated                              *)
(***************************************************************************)
\* PhpSymbol.findChild(parent, fn): the first child of parent that fn
\* accepts, Null (undefined) when there is none
findChild(st, parent, fn) ==
    LET children == ChildrenOf(st, parent)
        accepted == {i \in 1..Len(children) : Accepts(fn, children[i])}
    IN IF accepted = {} THEN Null
       ELSE children[CHOOSE i \in accepted : \A j \in accepted : i <= j]

\* TypeAggregate.isBaseClass(name) of the aggregate of symbol
isBaseClass(st, symbol, name) ==
    LET lcName == ToLower(name)
        fn == Pred({"Class"}, "lower", lcName, FALSE, {})
    IN findChild(st, symbol, fn) # Null

\* TypeAggregate.isAssociated(name) of the aggregate of symbol
isAssociated(st, symbol, name) ==
    IF name = <<>> THEN FALSE
    ELSE LET lcName == ToLower(name)
             associated == GetAssociated(st, symbol, FALSE)
         IN \E i \in 1..Len(associated) : ToLower(associated[i].name) = lcName

(***************************************************************************)
(* members and findBaseMember over the type hierarchies: the store holds   *)
(* the two documents of a hierarchy and one call is made on it.            *)
(***************************************************************************)
\* the store after the two documents of h were added
HierarchyStore(h) ==
    StoreAdd(StoreAdd(EmptyStore, SymbolTableOfTree(1, ClassTree(h))).store,
             SymbolTableOfTree(2, InterfaceTree(h))).store

MembersInit ==
    /\ \E h \in Hierarchies :
          /\ _tableIndex = HierarchyStore(h)._tableIndex
          /\ _symbolIndex = HierarchyStore(h)._symbolIndex
          /\ _symbolCount = HierarchyStore(h)._symbolCount
    /\ agg = NoAgg
    /\ last = NoCall
    /\ snap = NoSnap

MergeStrategies == {"None", "Override", "Documented", "Base"}

\* the predicates members is called with: none, and "a method named m"
MemberPredicates == {NoFilter, Pred({"Method"}, "lower", <<"m">>, FALSE, {})}

\* TypeAggregate.create(symbolStore, fqn).members(strategy, predicate)
CallMembers(fqn, strategy, predicate) ==
    LET root == Create(Store, fqn) IN
    /\ Ready
    /\ root # Null
    /\ last' = [op |-> "members", root |-> root, strategy |-> strategy,
                filter |-> predicate,
                symbols |-> Members(Store, root, strategy, predicate)]
    /\ UNCHANGED <<_tableIndex, _symbolIndex, _symbolCount, agg, snap>>

\* symbolStore.findBaseMember(symbol)
CallFindBaseMember(symbol) ==
    /\ Ready
    /\ last' = [op |-> "findBaseMember", symbol |-> symbol,
                result |-> FindBaseMember(Store, symbol)]
    /\ UNCHANGED <<_tableIndex, _symbolIndex, _symbolCount, agg, snap>>

\* the names isBaseClass and isAssociated are asked about
AskedNames == {<<>>, <<"a">>, <<"i">>}

\* TypeAggregate.create(symbolStore, fqn).isBaseClass(name)
CallIsBaseClass(fqn, name) ==
    LET root == Create(Store, fqn) IN
    /\ Ready
    /\ root # Null
    /\ last' = [op |-> "isBaseClass", root |-> root, name |-> name,
                result |-> isBaseClass(Store, root, name)]
    /\ UNCHANGED <<_tableIndex, _symbolIndex, _symbolCount, agg, snap>>

\* TypeAggregate.create(symbolStore, fqn).isAssociated(name)
CallIsAssociated(fqn, name) ==
    LET root == Create(Store, fqn) IN
    /\ Ready
    /\ root # Null
    /\ last' = [op |-> "isAssociated", root |-> root, name |-> name,
                result |-> isAssociated(Store, root, name)]
    /\ UNCHANGED <<_tableIndex, _symbolIndex, _symbolCount, agg, snap>>

MembersNext ==
    \/ \E fqn \in {<<"C">>, <<"B">>, <<"I">>}, strategy \in MergeStrategies,
          predicate \in MemberPredicates : CallMembers(fqn, strategy, predicate)
    \/ \E symbol \in {Null} \cup StoreSymbols(Store) : CallFindBaseMember(symbol)
    \/ \E fqn \in {<<"C">>, <<"I">>}, name \in AskedNames : CallIsBaseClass(fqn, name)
    \/ \E fqn \in {<<"C">>, <<"I">>}, name \in AskedNames : CallIsAssociated(fqn, name)

MembersSpec == MembersInit /\ [][MembersNext]_vars

(***************************************************************************)
(* findSymbolsByReference for member references: the store holds a         *)
(* document with classes A extends B, each with a method, a property and a *)
(* class constant, and one call is made on it.                             *)
(***************************************************************************)
ReferenceInit ==
    /\ \E a \in MemberNamings, b \in MemberNamings, t \in TraitShapes :
          LET st == StoreAdd(StoreAdd(EmptyStore,
                                      SymbolTableOfTree(1, MemberTree(a, b))).store,
                             SymbolTableOfTree(2, TraitTree(t))).store
          IN /\ _tableIndex = st._tableIndex
             /\ _symbolIndex = st._symbolIndex
             /\ _symbolCount = st._symbolCount
    /\ agg = NoAgg
    /\ last = NoCall
    /\ snap = NoSnap

\* the member references the calls are made with: the scope names a class,
\* a union of both, or no type of the store
MemberReferences ==
    {Reference(kind, name, <<>>, scope, 1, Position(0, 0)) :
        kind \in {"Method", "Property", "ClassConstant"},
        name \in MemberNames,
        scope \in {<<"A">>, <<"b">>, <<"a", "|", "B">>, <<"X">>}}

\* the strategies passed: none, or one of the enumeration
PassedStrategies == {"undefined"} \cup MergeStrategies

\* symbolStore.findSymbolsByReference(ref, memberMergeStrategy)
CallMemberReference(ref, strategy) ==
    /\ Ready
    /\ last' = [op |-> "findSymbolsByReference", ref |-> ref, strategy |-> strategy,
                threw |-> FindSymbolsByReference(Store, ref, strategy).threw,
                symbols |-> FindSymbolsByReference(Store, ref, strategy).symbols]
    /\ UNCHANGED <<_tableIndex, _symbolIndex, _symbolCount, agg, snap>>

\* the type-strings findMembers is called with: one class, a union that
\* names both classes, a union that names B twice around a name of no type,
\* and a name of no type
MemberScopes ==
    {<<"A">>, <<"a", "|", "B">>, <<"B", "|", "X", "|", "b">>, <<"X">>}

\* symbolStore.findMembers(scope, memberMergeStrategy, predicate)
CallFindMembers(scope, strategy, predicate) ==
    /\ Ready
    /\ last' = [op |-> "findMembers", scope |-> scope, strategy |-> strategy,
                filter |-> predicate,
                symbols |-> FindMembers(Store, scope, strategy, predicate)]
    /\ UNCHANGED <<_tableIndex, _symbolIndex, _symbolCount, agg, snap>>

ReferenceNext ==
    \/ \E ref \in MemberReferences, strategy \in PassedStrategies :
          CallMemberReference(ref, strategy)
    \/ \E scope \in MemberScopes, strategy \in MergeStrategies,
          predicate \in {NoFilter, KindFilter({"Method"})} :
          CallFindMembers(scope, strategy, predicate)
    \/ \E strategy \in MergeStrategies, predicate \in {NoFilter, KindFilter({"Method"})} :
          CallMembers(<<"A">>, strategy, predicate)

ReferenceSpec == ReferenceInit /\ [][ReferenceNext]_vars

(***************************************************************************)
(* SymbolTable.scope, absoluteScope and nameResolver on the table of a     *)
(* document with nested scopes: the store holds the table and one call is  *)
(* made on it.                                                             *)
(***************************************************************************)
TableInit ==
    /\ \E d \in ScopeDocuments :
          LET st == StoreAdd(EmptyStore, SymbolTableOfTree(1, ScopeTree(d))).store
          IN /\ _tableIndex = st._tableIndex
             /\ _symbolIndex = st._symbolIndex
             /\ _symbolCount = st._symbolCount
    /\ agg = NoAgg
    /\ last = NoCall
    /\ snap = NoSnap

\* the positions the calls are made with: line starts and two columns
\* inside the lines, up to a line after the end of the document
Positions == {Position(l, c) : l \in 0..11, c \in {0, 5, 8}}

\* getSymbolTable(uri).scope(pos)
CallScope(pos) ==
    /\ Ready
    /\ last' = [op |-> "scope", pos |-> pos, result |-> Scope(_tableIndex[1], pos)]
    /\ UNCHANGED <<_tableIndex, _symbolIndex, _symbolCount, agg, snap>>

\* getSymbolTable(uri).absoluteScope(pos)
CallAbsoluteScope(pos) ==
    /\ Ready
    /\ last' = [op |-> "absoluteScope", pos |-> pos,
                result |-> AbsoluteScope(_tableIndex[1], pos)]
    /\ UNCHANGED <<_tableIndex, _symbolIndex, _symbolCount, agg, snap>>

\* getSymbolTable(uri).nameResolver(pos)
CallNameResolver(pos) ==
    /\ Ready
    /\ last' = [op |-> "nameResolver", pos |-> pos,
                result |-> nameResolver(_tableIndex[1], pos)]
    /\ UNCHANGED <<_tableIndex, _symbolIndex, _symbolCount, agg, snap>>

TableNext ==
    \/ \E pos \in Positions : CallScope(pos)
    \/ \E pos \in Positions : CallAbsoluteScope(pos)
    \/ \E pos \in Positions : CallNameResolver(pos)

TableSpec == TableInit /\ [][TableNext]_vars

(***************************************************************************)
(* An aggregate that its caller keeps while the store changes: the calls   *)
(* return without dropping it, and associated(), members() and             *)
(* isAssociated() are called on it again.                                  *)
(***************************************************************************)
\* _getAssociated as it would be without the test of this._associated: the
\* closure is resolved on every call
GetAssociatedAnew(st, g) ==
    [g EXCEPT !.resolved = TRUE,
              !.a = AssociatedLoop(st, AssociatedStart(g.symbol), FALSE)]

\* TypeAggregate._getAssociated() on the aggregate g: the aggregate after
\* the call, with the closure in a._associated
GetAssociatedMemo(st, g) ==
    IF g.resolved THEN g
    ELSE [g EXCEPT !.resolved = TRUE,
                   !.a = AssociatedLoop(st, AssociatedStart(g.symbol), FALSE)]

\* a call on an aggregate that exists and is not inside _getAssociated
OnAggregate(op, name) ==
    LET g == GetAssociatedMemo(Store, agg) IN
    /\ Ready
    /\ agg.pc = "idle"
    /\ agg' = g
    /\ last' = [op |-> op, name |-> name, closure |-> g.a._associated,
                result |-> IF op = "isAssociated"
                           THEN name # <<>>
                                /\ \E i \in 1..Len(g.a._associated) :
                                      ToLower(g.a._associated[i].name) = ToLower(name)
                           ELSE FALSE]
    /\ UNCHANGED <<_tableIndex, _symbolIndex, _symbolCount, snap>>

\* aggregate.associated()
CallAssociated == OnAggregate("associated", <<>>)

\* aggregate.members(strategy, predicate): the closure it reads
CallAggregateMembers == OnAggregate("members", <<>>)

\* aggregate.isAssociated(name)
CallAggregateIsAssociated(name) == OnAggregate("isAssociated", name)

\* the call returns and its caller keeps the aggregate
ReturnKeeping ==
    /\ last # NoCall
    /\ last' = NoCall
    /\ snap' = NoSnap
    /\ UNCHANGED <<_tableIndex, _symbolIndex, _symbolCount, agg>>

AggregateNext ==
    \/ \E uri \in Uris, sh \in {"A", "B", "ns"} : Add(uri, sh)
    \/ \E uri \in Uris : Remove(uri)
    \/ \E fqn \in {<<"a">>, <<"b">>} : CallCreate(fqn)
    \/ CallAssociated
    \/ CallAggregateMembers
    \/ \E name \in {<<"a">>, <<"B">>} : CallAggregateIsAssociated(name)
    \/ ReturnKeeping

AggregateSpec == Init /\ [][AggregateNext]_vars

(***************************************************************************)
(* Intelephense.shutdown.  The state of one call is held in last: the      *)
(* promise it returned, the closure variables refs and symbols, and the    *)
(* two promise chains closeAll().then(..).catch(..) and                    *)
(* write(..).then(..).catch(..).  A chain is "pending" while its operation *)
(* is in flight, "fulfilled" or "rejected" when the operation has settled  *)
(* and the reaction of then() is queued, "passed" when the rejection has   *)
(* gone through then() and the reaction of catch() is queued, and "done"   *)
(* when its handler has run.                                               *)
(***************************************************************************)
\* let cacheClear = false, the only assignment of the variable
cacheClear == FALSE

\* the operations shutdown starts
Operations == {"refs", "symbols"}

\* the closure as it would be if either flag were enough to resolve
OnResolveOrRejectEither(sd, which) ==
    LET s == [sd EXCEPT ![which] = TRUE] IN
    IF s.refs \/ s.symbols
    THEN [s EXCEPT !.promise = IF s.promise = "pending" THEN "resolved" ELSE s.promise,
                   !.resolveCalls = s.resolveCalls + 1]
    ELSE s

\* onResolveOrRejectRefs / onResolveOrRejectSymbols: the flag of the
\* operation is set and resolve() is called when both are; resolve() on a
\* promise that is no longer pending has no effect
OnResolveOrReject(sd, which) ==
    LET s == [sd EXCEPT ![which] = TRUE] IN
    IF s.refs /\ s.symbols
    THEN [s EXCEPT !.promise = IF s.promise = "pending" THEN "resolved" ELSE s.promise,
                   !.resolveCalls = s.resolveCalls + 1]
    ELSE s

ShutdownInit ==
    /\ \E sh \in {"A", "B", "ns", "none"} :
          LET st == IF sh = "none" THEN EmptyStore
                    ELSE StoreAdd(EmptyStore, SymbolTable(1, sh)).store
          IN /\ _tableIndex = st._tableIndex
             /\ _symbolIndex = st._symbolIndex
             /\ _symbolCount = st._symbolCount
    /\ agg = NoAgg
    /\ last = NoCall
    /\ snap = NoSnap

\* shutdown(): the promise is made and its executor starts both operations
CallShutdown ==
    /\ Ready
    /\ last' = IF cacheClear
               THEN [op |-> "shutdown", promise |-> "resolved", resolveCalls |-> 0,
                     refs |-> FALSE, symbols |-> FALSE,
                     chain |-> [o \in Operations |-> "none"],
                     written |-> Null, warned |-> <<>>]
               ELSE [op |-> "shutdown", promise |-> "pending", resolveCalls |-> 0,
                     refs |-> FALSE, symbols |-> FALSE,
                     chain |-> [o \in Operations |-> "pending"],
                     written |-> ToJSON(Store), warned |-> <<>>]
    /\ UNCHANGED <<_tableIndex, _symbolIndex, _symbolCount, agg, snap>>

\* refStore.closeAll() or symbolCache.write() settles: its promise is
\* fulfilled or rejected
Settles(which, ok) ==
    /\ last.op = "shutdown"
    /\ last.chain[which] = "pending"
    /\ last' = [last EXCEPT !.chain[which] = IF ok THEN "fulfilled" ELSE "rejected"]
    /\ UNCHANGED <<_tableIndex, _symbolIndex, _symbolCount, agg, snap>>

\* the reaction of then(): the handler runs after a fulfilment, a rejection
\* goes on to catch()
ThenReaction(which) ==
    /\ last.op = "shutdown"
    /\ last.chain[which] \in {"fulfilled", "rejected"}
    /\ last' = IF last.chain[which] = "fulfilled"
               THEN [OnResolveOrReject(last, which) EXCEPT !.chain[which] = "done"]
               ELSE [last EXCEPT !.chain[which] = "passed"]
    /\ UNCHANGED <<_tableIndex, _symbolIndex, _symbolCount, agg, snap>>

\* the reaction of catch(): Log.warn(msg), then the handler
CatchReaction(which) ==
    /\ last.op = "shutdown"
    /\ last.chain[which] = "passed"
    /\ last' = [OnResolveOrReject([last EXCEPT !.warned = Append(@, which)], which)
                   EXCEPT !.chain[which] = "done"]
    /\ UNCHANGED <<_tableIndex, _symbolIndex, _symbolCount, agg, snap>>

ShutdownNext ==
    \/ CallShutdown
    \/ \E which \in Operations, ok \in BOOLEAN : Settles(which, ok)
    \/ \E which \in Operations : ThenReaction(which)
    \/ \E which \in Operations : CatchReaction(which)

\* an operation that was started settles, and the reactions of a settled
\* promise are run by the event loop
ShutdownSpec ==
    /\ ShutdownInit
    /\ [][ShutdownNext]_vars
    /\ WF_vars(\E which \in Operations : ThenReaction(which))
    /\ WF_vars(\E which \in Operations : CatchReaction(which))

(***************************************************************************)
(* The earlier SymbolStore: _map is held in _tableIndex and _index in      *)
(* _symbolIndex.  The SymbolIndex is the list of the symbols it holds:     *)
(* addMany appends, removeMany takes out the symbols of the table.         *)
(***************************************************************************)
\* SymbolStore._indexFilter
EarlierIndexFilter(s) ==
    /\ s.kind # "Parameter"
    /\ (s.kind # "Variable" \/ s.scope = <<>>)
    /\ "Use" \notin s.modifiers
    /\ Len(s.name) > 0

\* SymbolStore._indexSymbols(root)
EarlierIndexSymbols(t) == SelectSeq(t.nodes, EarlierIndexFilter)

\* add as it would be without the test of getSymbolTable: the table that
\* is registered is replaced in the map
EarlierAddUnchecked(st, symbolTable) ==
    [store |-> [st EXCEPT !._tableIndex[symbolTable.uri] = symbolTable,
                          !._symbolIndex = @ \o EarlierIndexSymbols(symbolTable),
                          !._symbolCount = @ + SymbolCount(symbolTable)],
     threw |-> FALSE]

\* SymbolStore.add(symbolTable) of the earlier store
EarlierAdd(st, symbolTable) ==
    IF st._tableIndex[symbolTable.uri] # NoTable
    THEN [store |-> st, threw |-> TRUE]
    ELSE [store |-> [st EXCEPT !._tableIndex[symbolTable.uri] = symbolTable,
                               !._symbolIndex = @ \o EarlierIndexSymbols(symbolTable),
                               !._symbolCount = @ + SymbolCount(symbolTable)],
          threw |-> FALSE]

\* SymbolStore.remove(uri) of the earlier store
EarlierRemove(st, uri) ==
    LET symbolTable == st._tableIndex[uri] IN
    IF symbolTable = NoTable THEN st
    ELSE [st EXCEPT !._symbolIndex = SelectSeq(@, LAMBDA s : s.table # uri),
                    !._symbolCount = @ - SymbolCount(symbolTable),
                    !._tableIndex[uri] = NoTable]

\* store.add(new SymbolTable(uri, root))
CallEarlierAdd(uri, sh) ==
    LET r == EarlierAdd(Store, SymbolTable(uri, sh)) IN
    /\ Ready
    /\ SetStore(r.store)
    /\ last' = Call("add", uri, _tableIndex[uri] # NoTable, <<>>, NoFilter, Null,
                    r.threw, <<>>)
    /\ snap' = [store |-> Store, table |-> SymbolTable(uri, sh)]
    /\ UNCHANGED agg

\* store.remove(uri)
CallEarlierRemove(uri) ==
    /\ Ready
    /\ SetStore(EarlierRemove(Store, uri))
    /\ last' = Call("remove", uri, _tableIndex[uri] # NoTable, <<>>, NoFilter, Null,
                    FALSE, <<>>)
    /\ snap' = [store |-> Store, table |-> NoTable]
    /\ UNCHANGED agg

\* store.onParsedDocumentChange(args): remove(uri), then add of the table
\* read from the document
EarlierOnParsedDocumentChange(uri, sh) ==
    LET r == EarlierAdd(EarlierRemove(Store, uri), SymbolTable(uri, sh)) IN
    /\ Ready
    /\ SetStore(r.store)
    /\ last' = Call("onParsedDocumentChange", uri, _tableIndex[uri] # NoTable, <<>>,
                    NoFilter, Null, r.threw, <<>>)
    /\ snap' = [store |-> Store, table |-> SymbolTable(uri, sh)]
    /\ UNCHANGED agg

EarlierNext ==
    \/ \E uri \in Uris, sh \in {"fn", "A", "B", "ns"} : CallEarlierAdd(uri, sh)
    \/ \E uri \in Uris : CallEarlierRemove(uri)
    \/ \E uri \in Uris, sh \in {"fn", "A", "B", "ns"} :
          EarlierOnParsedDocumentChange(uri, sh)
    \/ ReturnKeeping

EarlierSpec == Init /\ [][EarlierNext]_vars

(***************************************************************************)
(* The package entry point lib/intelephense.js: documentSymbols.  The      *)
(* symbols of this version carry their kind as a number; the table of a    *)
(* uri is held in _tableIndex as the record of symbolTable.symbols.         *)
(***************************************************************************)
\* the kinds of symbol.SymbolKind, with the values the compiled code names
SymbolKind ==
    [Class |-> 1, Interface |-> 2, Trait |-> 4, Constant |-> 8, Property |-> 16,
     Method |-> 32, Function |-> 64, Parameter |-> 128, Variable |-> 256,
     Namespace |-> 512]

\* the kinds of vscode-languageserver-types SymbolKind that the code uses
LspSymbolKind ==
    [Module |-> 2, Namespace |-> 3, Class |-> 5, Method |-> 6, Property |-> 7,
     Constructor |-> 9, Interface |-> 11, Function |-> 12, Variable |-> 13,
     Constant |-> 14]

\* a & b on non-negative integers
RECURSIVE BitAnd(_, _)
BitAnd(a, b) ==
    IF a = 0 \/ b = 0 THEN 0
    ELSE (a % 2) * (b % 2) + 2 * BitAnd(a \div 2, b \div 2)

namespacedSymbolMask ==
    SymbolKind.Interface + SymbolKind.Class + SymbolKind.Trait
        + SymbolKind.Constant + SymbolKind.Function

\* s.lastIndexOf(c), counted from 1; 0 when c is not in s
LastIndexOf(s, c) ==
    IF \E i \in 1..Len(s) : s[i] = c
    THEN CHOOSE i \in 1..Len(s) : s[i] = c /\ \A j \in (i + 1)..Len(s) : s[j] # c
    ELSE 0

ConstructName == <<"_", "_", "c", "o", "n", "s", "t", "r", "u", "c", "t">>

\* toDocumentSymbolInformation(s): the symbol as the call leaves it, the
\* record si and whether the call threw.  si.kind 0 stands for null.  The
\* cases Class, Constant, Function and Interface assign si.kind; the cases
\* Method, Namespace, Property and Trait assign s.kind; the case of
\* Variable and Parameter assigns s.kind and has no break, so that it runs
\* into the default case, which throws.
toDocumentSymbolInformation(s) ==
    LET nsSeparatorPos == LastIndexOf(s.name, "\\")
        split == BitAnd(s.kind, namespacedSymbolMask) # 0 /\ s.scope = <<>>
                    /\ nsSeparatorPos > 0
        si == [kind |-> 0,
               name |-> IF split THEN SubSeq(s.name, nsSeparatorPos + 1, Len(s.name))
                        ELSE s.name,
               location |-> s.location,
               containerName |-> IF split THEN SubSeq(s.name, 1, nsSeparatorPos - 1)
                                 ELSE s.scope]
    IN CASE s.kind = SymbolKind.Class ->
              [s |-> s, si |-> [si EXCEPT !.kind = LspSymbolKind.Class], threw |-> FALSE]
         [] s.kind = SymbolKind.Constant ->
              [s |-> s, si |-> [si EXCEPT !.kind = LspSymbolKind.Constant], threw |-> FALSE]
         [] s.kind = SymbolKind.Function ->
              [s |-> s, si |-> [si EXCEPT !.kind = LspSymbolKind.Function], threw |-> FALSE]
         [] s.kind = SymbolKind.Interface ->
              [s |-> s, si |-> [si EXCEPT !.kind = LspSymbolKind.Interface], threw |-> FALSE]
         [] s.kind = SymbolKind.Method ->
              [s |-> [s EXCEPT !.kind = IF s.name = ConstructName
                                        THEN LspSymbolKind.Constructor
                                        ELSE LspSymbolKind.Method],
               si |-> si, threw |-> FALSE]
         [] s.kind = SymbolKind.Namespace ->
              [s |-> [s EXCEPT !.kind = LspSymbolKind.Namespace], si |-> si, threw |-> FALSE]
         [] s.kind = SymbolKind.Property ->
              [s |-> [s EXCEPT !.kind = LspSymbolKind.Property], si |-> si, threw |-> FALSE]
         [] s.kind = SymbolKind.Trait ->
              [s |-> [s EXCEPT !.kind = LspSymbolKind.Module], si |-> si, threw |-> FALSE]
         [] s.kind \in {SymbolKind.Variable, SymbolKind.Parameter} ->
              [s |-> [s EXCEPT !.kind = LspSymbolKind.Variable], si |-> si, threw |-> TRUE]
         [] OTHER -> [s |-> s, si |-> si, threw |-> TRUE]

\* symbolTable.symbols.map(toDocumentSymbolInformation) from element i: the
\* symbols as the calls leave them, the records made and whether a call
\* threw, which ends the map
RECURSIVE MapToDocumentSymbolInformation(_, _, _)
MapToDocumentSymbolInformation(symbols, i, out) ==
    IF i > Len(symbols) THEN [symbols |-> symbols, result |-> out, threw |-> FALSE]
    ELSE LET r == toDocumentSymbolInformation(symbols[i]) IN
         IF r.threw
         THEN [symbols |-> [symbols EXCEPT ![i] = r.s], result |-> <<>>, threw |-> TRUE]
         ELSE MapToDocumentSymbolInformation([symbols EXCEPT ![i] = r.s], i + 1,
                                             Append(out, r.si))

\* the symbols a document of this version declares
MaxSymbols == 2

DocumentSymbolNames == {<<"k">>, ConstructName, <<"n", "\\", "c">>}

DocumentSymbolKinds == {SymbolKind[f] : f \in DOMAIN SymbolKind}

\* a member has the name of its type as scope; a constant is a class
\* constant or a constant of the file
DocumentSymbolScopes(kind) ==
    IF kind \in {SymbolKind.Method, SymbolKind.Property, SymbolKind.Parameter}
    THEN {<<"A">>}
    ELSE IF kind = SymbolKind.Constant THEN {<<>>, <<"A">>} ELSE {<<>>}

DocumentSymbolsOf(uri) ==
    LET all == {s \in [kind : DocumentSymbolKinds, name : DocumentSymbolNames,
                       scope : {<<>>, <<"A">>}, location : {[uri |-> uri]}] :
                   s.scope \in DocumentSymbolScopes(s.kind)}
    IN UNION {[1..n -> all] : n \in 0..MaxSymbols}

\* openDocument(1, text) has registered the table of a document
DocumentInit ==
    /\ \E symbols \in DocumentSymbolsOf(1) :
          _tableIndex = [u \in Uris |-> IF u = 1 THEN [symbols |-> symbols] ELSE NoTable]
    /\ _symbolIndex = <<>>
    /\ _symbolCount = 0
    /\ agg = NoAgg
    /\ last = NoCall
    /\ snap = NoSnap

\* Intelephense.documentSymbols(uri)
documentSymbols(uri) ==
    LET symbolTable == _tableIndex[uri]
        r == IF symbolTable = NoTable
             THEN [symbols |-> <<>>, result |-> <<>>, threw |-> FALSE]
             ELSE MapToDocumentSymbolInformation(symbolTable.symbols, 1, <<>>)
    IN /\ Ready
       /\ _tableIndex' = IF symbolTable = NoTable THEN _tableIndex
                         ELSE [_tableIndex EXCEPT ![uri] = [symbols |-> r.symbols]]
       /\ last' = [op |-> "documentSymbols", uri |-> uri,
                   had |-> symbolTable # NoTable, threw |-> r.threw,
                   symbols |-> r.result]
       /\ snap' = [store |-> Store, table |-> NoTable]
       /\ UNCHANGED <<_symbolIndex, _symbolCount, agg>>

DocumentNext ==
    \/ \E uri \in Uris : documentSymbols(uri)
    \/ ReturnKeeping

DocumentSpec == DocumentInit /\ [][DocumentNext]_vars

(***************************************************************************)
(* BinarySearch (types.ts).  A comparator is the function that gives each  *)
(* element of the array its result; indices count from 0 as in the code.   *)
(***************************************************************************)
\* the loop of BinarySearch._search, from its test of left > right
RECURSIVE SearchLoop(_, _, _, _)
SearchLoop(sortedArray, compare, left, right) ==
    IF left > right THEN [rank |-> left, isExactMatch |-> FALSE]
    ELSE LET mid == (left + right) \div 2
             compareResult == compare[sortedArray[mid + 1]]
         IN IF compareResult < 0
            THEN SearchLoop(sortedArray, compare, mid + 1, right)
            ELSE IF compareResult > 0
            THEN SearchLoop(sortedArray, compare, left, mid - 1)
            ELSE [rank |-> mid, isExactMatch |-> TRUE]

\* _search as it would be with the loop ending when left meets right
SearchStopsEarly(sortedArray, compare, left) ==
    IF left >= Len(sortedArray) - 1 THEN [rank |-> left, isExactMatch |-> FALSE]
    ELSE SearchLoop(sortedArray, compare, left, Len(sortedArray) - 1)

\* BinarySearch._search(compare, left)
Search(sortedArray, compare, left) ==
    SearchLoop(sortedArray, compare, left, Len(sortedArray) - 1)

\* BinarySearch.find(compare): Null for null
BinarySearchFind(sortedArray, compare) ==
    LET result == Search(sortedArray, compare, 0) IN
    IF result.isExactMatch THEN sortedArray[result.rank + 1] ELSE Null

\* BinarySearch.rank(compare)
BinarySearchRank(sortedArray, compare) == Search(sortedArray, compare, 0).rank

\* Array.prototype.slice(from, to) for indices that are not negative
Slice(s, from, to) ==
    LET end == IF to > Len(s) THEN Len(s) ELSE to IN
    IF from >= end THEN <<>> ELSE SubSeq(s, from + 1, end)

\* BinarySearch.range(compareLower, compareUpper)
BinarySearchRange(sortedArray, compareLower, compareUpper) ==
    LET rankLower == BinarySearchRank(sortedArray, compareLower) IN
    Slice(sortedArray, rankLower,
          Search(sortedArray, compareUpper, rankLower + 1).rank)

(***************************************************************************)
(* BinarySearch on its own: an array of up to MaxLength elements and a     *)
(* comparator the array is sorted by.                                      *)
(***************************************************************************)
MaxLength == 6

\* the comparators an array is sorted consistently with: the elements that
\* compare below come first, then the equal ones, then those above
Comparators(sortedArray) ==
    {compare \in [Range(sortedArray) -> {-1, 0, 1}] :
        \A i, j \in 1..Len(sortedArray) :
            i < j => compare[sortedArray[i]] <= compare[sortedArray[j]]}

SearchInit ==
    /\ _tableIndex = EmptyStore._tableIndex
    /\ _symbolIndex = EmptyStore._symbolIndex
    /\ _symbolCount = EmptyStore._symbolCount
    /\ agg = NoAgg
    /\ snap = NoSnap
    /\ \E n \in 0..MaxLength :
          last = [op |-> "sortedArray",
                  sortedArray |-> [i \in 1..n |-> [element |-> i]]]

\* new BinarySearch(sortedArray).find(compare)
CallSearchFind(compare) ==
    /\ last.op = "sortedArray"
    /\ last' = [op |-> "BinarySearch.find", sortedArray |-> last.sortedArray,
                compare |-> compare,
                result |-> BinarySearchFind(last.sortedArray, compare)]
    /\ UNCHANGED <<_tableIndex, _symbolIndex, _symbolCount, agg, snap>>

\* new BinarySearch(sortedArray).rank(compare)
CallSearchRank(compare) ==
    /\ last.op = "sortedArray"
    /\ last' = [op |-> "BinarySearch.rank", sortedArray |-> last.sortedArray,
                compare |-> compare,
                result |-> BinarySearchRank(last.sortedArray, compare)]
    /\ UNCHANGED <<_tableIndex, _symbolIndex, _symbolCount, agg, snap>>

SearchNext ==
    \/ \E compare \in Comparators(last.sortedArray) : CallSearchFind(compare)
    \/ \E compare \in Comparators(last.sortedArray) : CallSearchRank(compare)

SearchSpec == SearchInit /\ [][SearchNext]_vars

(***************************************************************************)
(* SuffixArray (types.ts).  The object is the record of its _nodeArray and *)
(* _caseSensitive; created counts the nodes it has made, which gives each  *)
(* node its identity.                                                      *)
(***************************************************************************)
\* Intl.Collator.compare(a, b)
Collate(a, b) == IF a = b THEN 0 ELSE IF KeyLess(a, b) THEN -1 ELSE 1

\* this._caseSensitive ? text : text.toLowerCase()
LcText(sa, text) == IF sa._caseSensitive THEN text ELSE ToLower(text)

\* the comparator (n) => collator.compare(text, n.key)
CompareKey(sa, text) == [n \in Range(sa._nodeArray) |-> Collate(text, n.key)]

\* SuffixArray._nodeFind(text): the node, Null for null
SuffixNodeFind(sa, text) ==
    BinarySearchFind(sa._nodeArray, CompareKey(sa, LcText(sa, text)))

\* SuffixArray._insertNode(node)
InsertNode(sa, node) ==
    LET rank == BinarySearchRank(sa._nodeArray, CompareKey(sa, node.key)) IN
    [sa EXCEPT !._nodeArray = InsertAt(@, rank + 1, node)]

\* SuffixArray._deleteNode(node)
DeleteNode(sa, node) ==
    LET rank == BinarySearchRank(sa._nodeArray, CompareKey(sa, node.key)) IN
    IF rank < Len(sa._nodeArray) /\ sa._nodeArray[rank + 1] = node
    THEN [sa EXCEPT !._nodeArray = RemoveAt(@, rank + 1)]
    ELSE sa

\* the index of node in the node array
NodeIndex(sa, node) == CHOOSE i \in 1..Len(sa._nodeArray) : sa._nodeArray[i] = node

\* the loop of SuffixArray.add(item) over the suffixes
RECURSIVE SuffixAddLoop(_, _, _)
SuffixAddLoop(sa, item, suffixes) ==
    IF suffixes = <<>> THEN sa
    ELSE LET node == SuffixNodeFind(sa, suffixes[1])
             next == IF node # Null
                     THEN [sa EXCEPT !._nodeArray[NodeIndex(sa, node)].items =
                                         Append(@, item)]
                     ELSE [InsertNode(sa, [key |-> suffixes[1], items |-> <<item>>,
                                           id |-> sa.created + 1])
                              EXCEPT !.created = @ + 1]
         IN SuffixAddLoop(next, item, Tail(suffixes))

\* SuffixArray.add(item); the suffix delegate reads item.suffixes
SuffixAdd(sa, item) == SuffixAddLoop(sa, item, item.suffixes)

\* the loop of SuffixArray.remove(item) over the suffixes
RECURSIVE SuffixRemoveLoop(_, _, _)
SuffixRemoveLoop(sa, item, suffixes) ==
    IF suffixes = <<>> THEN sa
    ELSE LET node == SuffixNodeFind(sa, suffixes[1])
             i == IF node = Null THEN 0 ELSE IndexOf(node.items, item, 1)
             next == IF node = Null \/ i = 0 THEN sa
                     ELSE LET spliced == [node EXCEPT !.items = RemoveAt(@, i)]
                              kept == [sa EXCEPT !._nodeArray[NodeIndex(sa, node)] = spliced]
                          IN IF spliced.items = <<>> THEN DeleteNode(kept, spliced)
                             ELSE kept
         IN SuffixRemoveLoop(next, item, Tail(suffixes))

\* SuffixArray.remove(item)
SuffixRemove(sa, item) == SuffixRemoveLoop(sa, item, item.suffixes)

\* SuffixArray._nodeMatch(text)
NodeMatch(sa, text) ==
    LET lcText == LcText(sa, text) IN
    BinarySearchRange(sa._nodeArray,
                      CompareKey(sa, lcText),
                      [n \in Range(sa._nodeArray) |->
                          IF StartsWith(n.key, lcText) THEN 1 ELSE -1])

\* the items of the nodes, one after the other
RECURSIVE ItemsOfNodes(_)
ItemsOfNodes(nodes) ==
    IF nodes = <<>> THEN <<>> ELSE nodes[1].items \o ItemsOfNodes(Tail(nodes))

\* SuffixArray.match(text)
SuffixMatch(sa, text) == ItemsOfNodes(NodeMatch(sa, text))

(***************************************************************************)
(* A SuffixArray on its own: items are added and removed and prefixes are  *)
(* matched.  The SuffixArray is the value of _symbolIndex.                 *)
(***************************************************************************)
\* the most nodes one SuffixArray creates, and the most entries its
\* buckets hold together
MaxNodes == 4

MaxEntries == 5

\* the items: each has the suffixes the delegate returns for it
SuffixItems ==
    { [item |-> 1, suffixes |-> << <<"a">> >>],
      [item |-> 2, suffixes |-> << <<"a", "b">>, <<"b">> >>],
      [item |-> 3, suffixes |-> << <<"b", "a">> >>],
      [item |-> 4, suffixes |-> << <<"A">> >>] }

SuffixTexts == {<<>>, <<"a">>, <<"A">>, <<"b">>, <<"c">>}

\* new SuffixArray(suffixDelegate, caseSensitive)
SuffixInit ==
    /\ _tableIndex = EmptyStore._tableIndex
    /\ _symbolCount = EmptyStore._symbolCount
    /\ agg = NoAgg
    /\ snap = NoSnap
    /\ last = NoCall
    /\ \E caseSensitive \in BOOLEAN :
          _symbolIndex = [_nodeArray |-> <<>>, _caseSensitive |-> caseSensitive,
                          created |-> 0]

\* suffixArray.add(item)
CallSuffixAdd(item) ==
    /\ _symbolIndex.created + Len(item.suffixes) <= MaxNodes
    /\ Len(ItemsOfNodes(SuffixAdd(_symbolIndex, item)._nodeArray)) <= MaxEntries
    /\ _symbolIndex' = SuffixAdd(_symbolIndex, item)
    /\ last' = [op |-> "SuffixArray.add", item |-> item]
    /\ UNCHANGED <<_tableIndex, _symbolCount, agg, snap>>

\* suffixArray.remove(item)
CallSuffixRemove(item) ==
    /\ _symbolIndex' = SuffixRemove(_symbolIndex, item)
    /\ last' = [op |-> "SuffixArray.remove", item |-> item]
    /\ UNCHANGED <<_tableIndex, _symbolCount, agg, snap>>

\* suffixArray.match(text)
CallSuffixMatch(text) ==
    /\ last' = [op |-> "SuffixArray.match", text |-> text,
                nodes |-> NodeMatch(_symbolIndex, text),
                result |-> SuffixMatch(_symbolIndex, text)]
    /\ UNCHANGED <<_tableIndex, _symbolIndex, _symbolCount, agg, snap>>

SuffixNext ==
    \/ \E item \in SuffixItems : CallSuffixAdd(item)
    \/ \E item \in SuffixItems : CallSuffixRemove(item)
    \/ \E text \in SuffixTexts : CallSuffixMatch(text)

SuffixSpec == SuffixInit /\ [][SuffixNext]_vars

(***************************************************************************)
(* TypeAggregate._mergeMembers on its own: a call receives a list of up to *)
(* MaxMembers members, in the order _classMembers collected them.          *)
(***************************************************************************)
MaxMembers == 3

\* the descriptions of the doc-comments: empty, plain text, the two forms
\* of the inheritdoc tag (one in mixed case with blanks around it), and a
\* text that begins with the tag
Descriptions ==
    { <<>>,
      <<"d">>,
      <<"@", "i", "n", "h", "e", "r", "i", "t", "d", "o", "c">>,
      <<" ", "{", "@", "I", "n", "h", "e", "r", "i", "t", "D", "o", "c", "}", " ">>,
      <<"@", "i", "n", "h", "e", "r", "i", "t", "d", "o", "c", " ", "x">> }

\* what a member is made from: its name, its doc-comment if any, and
\* whether it comes from an @method tag
MemberShapes ==
    [name : {<<"m">>, <<"t", "o", "S", "t", "r", "i", "n", "g">>},
     doc : {NoDoc} \cup {[description |-> d] : d \in Descriptions},
     magic : BOOLEAN]

\* the n-th member of the list: a method of the n-th type
Member(n, shape) ==
    Sym(10 * n + 1, 10 * n, "Method", shape.name,
        IF shape.magic THEN {"Public", "Magic"} ELSE {"Public"},
        <<10 * n + 1, 0, 10 * n + 1, 1>>, <<>>, shape.doc)

MemberLists ==
    UNION {[1..n -> MemberShapes] : n \in 1..MaxMembers}

MergeInit ==
    /\ _tableIndex = EmptyStore._tableIndex
    /\ _symbolIndex = EmptyStore._symbolIndex
    /\ _symbolCount = EmptyStore._symbolCount
    /\ agg = NoAgg
    /\ snap = NoSnap
    /\ \E shapes \in MemberLists :
          last = [op |-> "symbols",
                  symbols |-> [n \in 1..Len(shapes) |-> Member(n, shapes[n])]]

\* this._mergeMembers(symbols, strategy)
CallMergeMembers(strategy) ==
    /\ last.op = "symbols"
    /\ last' = [op |-> "_mergeMembers", symbols |-> last.symbols,
                strategy |-> strategy,
                result |-> MergeMembers(last.symbols, strategy)]
    /\ UNCHANGED <<_tableIndex, _symbolIndex, _symbolCount, agg, snap>>

MergeNext == \E strategy \in MergeStrategies : CallMergeMembers(strategy)

MergeSpec == MergeInit /\ [][MergeNext]_vars

(***************************************************************************)
(* Properties                                                              *)
(***************************************************************************)
\* the stub the index holds for a symbol that has a location
StubOf(s) == [uriHash |-> s.location.uriHash, start |-> s.location.range.start]

\* the number of times the stub item is in the bucket of key
EntryCount(st, key, item) ==
    LET i == NodeFind(st._symbolIndex, key) IN
    IF i = 0 THEN 0
    ELSE Cardinality({j \in 1..Len(st._symbolIndex[i].items) :
                         st._symbolIndex[i].items[j] = item})

\* the indexed symbols: the indexable symbols of the registered tables whose
\* stub is in the bucket of each of their keys
IndexedSymbols(st) ==
    {s \in StoreSymbols(st) :
        /\ IsIndexable(s)
        /\ s.location # NoLocation
        /\ \A k \in Range(SymbolKeys(s)) : EntryCount(st, k, StubOf(s)) > 0}

RECURSIVE SumSymbolCount(_, _)
SumSymbolCount(st, n) ==
    IF n = 0 THEN 0
    ELSE (IF st._tableIndex[n] = NoTable THEN 0 ELSE SymbolCount(st._tableIndex[n]))
         + SumSymbolCount(st, n - 1)

\* C1: in every reachable state symbolCount is the sum of symbolCount over
\* the registered tables.  The code does not keep this: closeDocument prunes
\* a registered table and leaves _symbolCount as it was.
C1_SymbolCountIsSumOfTables ==
    _symbolCount = SumSymbolCount(Store, MaxUri)

\* C2: every entry of the Name Index names a registered table that has a
\* symbol starting at the entry's start, and a bucket holds a stub exactly as
\* many times as the registered table has indexable symbols with that start
\* and that key, so nothing of a removed or replaced table is left.
C2_IndexEntriesResolve ==
    \A i \in 1..Len(_symbolIndex) :
        \A item \in Range(_symbolIndex[i].items) :
            LET table == TableAt(Store, item.uriHash) IN
            /\ table # NoTable
            /\ FindByStartPosition(item.start, table) # Null
            /\ EntryCount(Store, _symbolIndex[i].key, item) =
                   Cardinality({n \in 1..Len(table.nodes) :
                       /\ IsIndexable(table.nodes[n])
                       /\ table.nodes[n].location # NoLocation
                       /\ StubOf(table.nodes[n]) = item
                       /\ _symbolIndex[i].key \in Range(SymbolKeys(table.nodes[n]))})

\* an add has replaced a table that had entries in the index by a table
\* with other entries
C2_Witness ==
    /\ last.op = "add" /\ last.had /\ ~last.threw
    /\ snap.store._symbolIndex # <<>>
    /\ _symbolIndex # <<>>
    /\ _symbolIndex # snap.store._symbolIndex

\* the answers of find and match for the texts and filters the model asks
SameAnswers(st1, st2) ==
    \A text \in Texts, filter \in Filters :
        /\ Find(st1, text, filter) = Find(st2, text, filter)
        /\ Match(st1, text, filter) = Match(st2, text, filter)

NoSymbolOf(st, uri) ==
    \A text \in Texts, filter \in Filters :
        \A s \in Range(Find(st, text, filter).symbols)
                    \cup Range(Match(st, text, filter).symbols) : s.table # uri

\* C3: add(T) for a uri that has no table, followed by remove(T.uri), leaves
\* symbolCount, tableCount and the answers of find and match as they were
\* before the add, and find and match return no symbol of T.
C3_AddThenRemoveRestores ==
    (last.op = "add;remove" /\ snap.store._tableIndex[last.uri] = NoTable) =>
        /\ _symbolCount = snap.store._symbolCount
        /\ TableCount(Store) = TableCount(snap.store)
        /\ SameAnswers(Store, snap.store)
        /\ NoSymbolOf(Store, last.uri)

\* a table with indexed symbols was added to a store that had symbols and no
\* table for its uri, and then removed
C3_Witness ==
    /\ last.op = "add;remove" /\ ~last.threw
    /\ snap.store._tableIndex[last.uri] = NoTable
    /\ snap.store._symbolIndex # <<>>
    /\ IndexableItems(snap.table) # <<>>

\* C4: add(T) on a uri that has a table old leaves what remove(uri) followed
\* by add(T) leaves: T is the table of the uri and symbolCount is the count
\* before, less old.symbolCount, plus T.symbolCount.  The code does not keep
\* this when T has an indexable symbol without location: add throws after
\* the removal and the count of T is never added.
C4_ReplaceIsRemoveThenAdd ==
    (last.op = "add" /\ last.had) =>
        LET uri == last.uri
            old == snap.store._tableIndex[uri]
        IN /\ _tableIndex[uri] = snap.table
           /\ _symbolCount = snap.store._symbolCount - SymbolCount(old)
                                + SymbolCount(snap.table)
           /\ Store = StoreAdd(StoreRemove(snap.store, uri).store, snap.table).store

\* C5: an add that throws leaves the store as it was before the call.  The
\* code does not keep this: the old table is removed and T registered before
\* the visitor throws.
C5_FailedAddLeavesStore ==
    (last.op = "add" /\ last.threw) => Store = snap.store

\* C6: find(text, filter) returns, once each, exactly the indexed symbols
\* that pass the filter and whose name is text (Constant, Variable) or equals
\* text with case folded (other kinds); an empty text gives the empty list.
C6_FindReturnsExactMatches ==
    last.op = "find" =>
        /\ ~last.threw
        /\ NoDuplicates(last.symbols)
        /\ Range(last.symbols) =
               {s \in IndexedSymbols(Store) :
                   /\ Len(last.text) > 0
                   /\ Passes(last.filter, s)
                   /\ IF s.kind \in {"Constant", "Variable"}
                      THEN s.name = last.text
                      ELSE ToLower(s.name) = ToLower(last.text)}
        /\ (last.text = <<>> => last.symbols = <<>>)

\* find("f") with the constant F and the function f indexed: the function
\* alone is returned
C6_Witness ==
    /\ last.op = "find" /\ last.text = <<"f">> /\ last.filter.none
    /\ \E s \in IndexedSymbols(Store) : s.kind = "Constant" /\ s.name = <<"F">>
    /\ Len(last.symbols) = 1
    /\ last.symbols[1].kind = "Function"

C8_FindWithinMatch ==
    last.op = "find" =>
        Range(last.symbols) \subseteq Range(Match(Store, last.text, last.filter).symbols)

\* a find with a filter that returned a symbol
C8_Witness ==
    /\ last.op = "find" /\ ~last.filter.none
    /\ last.symbols # <<>>

\* C9: findSymbolsByReference never throws.  The code does not keep this: a
\* Variable or Parameter reference whose start is in no scope node of its
\* table reads children of undefined.
C9_FindSymbolsByReferenceNeverThrows ==
    last.op = "findSymbolsByReference" => ~last.threw

\* the class-like symbols of the store that _getAssociated has not collected
Unvisited(st, a) ==
    {s \in StoreSymbols(st) : s.kind \in ClassLikeKinds /\ s \notin Range(a._associated)}

\* the most stubs one class-like symbol of the store names
MostStubs(st) ==
    LET lens == {Len(s.associated) : s \in StoreSymbols(st)} \cup {0}
    IN CHOOSE m \in lens : \A k \in lens : k <= m

\* a natural number that every pass of the loop of _getAssociated lowers
AssociatedVariant ==
    Cardinality(Unvisited(Store, agg.a)) * (MostStubs(Store) + 1) + Len(agg.a.queue)

\* C10: associated() terminates and returns no symbol twice: the list being
\* collected never holds a symbol twice, and every pass of the loop lowers a
\* natural number.
C10_AssociatedTerminatesWithoutRepeats ==
    /\ [](NoDuplicates(agg.a._associated))
    /\ [][agg.pc = "running" => AssociatedVariant' < AssociatedVariant]_vars

\* associated() has returned for a root whose stubs lead back to it
C10_Witness ==
    /\ agg.pc = "idle" /\ agg.resolved
    /\ Len(agg.a._associated) >= 2
    /\ agg.symbol \in Range(agg.a._associated)

\* the indexed symbols of kind kind that find returns for text: the name is
\* text (Constant, Variable) or text with case folded (other kinds)
ExactMatches(st, text, kinds) ==
    {s \in IndexedSymbols(st) :
        /\ Len(text) > 0
        /\ s.kind \in kinds
        /\ IF s.kind \in {"Constant", "Variable"} THEN s.name = text
           ELSE ToLower(s.name) = ToLower(text)}

\* C16: for a Function or Constant reference findSymbolsByReference returns
\* the symbols of that kind found under the name, and those found under
\* altName exactly when the first result is empty and altName is set; for a
\* Class reference and for a kind outside the switch altName plays no part.
C16_AltNameOnlyAfterEmptyResult ==
    (last.op = "findSymbolsByReference" /\ last.ref # Null) =>
        LET ref == last.ref
            direct == ExactMatches(Store, ref.name, {ref.kind})
        IN CASE ref.kind \in {"Function", "Constant"} ->
                  /\ ~last.threw
                  /\ NoDuplicates(last.symbols)
                  /\ Range(last.symbols) =
                        IF direct = {} /\ Len(ref.altName) > 0
                        THEN ExactMatches(Store, ref.altName, {ref.kind})
                        ELSE direct
             [] ref.kind \in ClassLikeKinds ->
                  Range(last.symbols) = ExactMatches(Store, ref.name, ClassLikeKinds)
             [] ref.kind = "Namespace" -> last.symbols = <<>>
             [] OTHER -> TRUE

\* a Function reference whose name finds nothing and whose altName finds a
\* function
C16_Witness ==
    /\ last.op = "findSymbolsByReference" /\ last.ref # Null
    /\ last.ref.kind = "Function"
    /\ ExactMatches(Store, last.ref.name, {"Function"}) = {}
    /\ Len(last.ref.altName) > 0
    /\ last.symbols # <<>>

\* C17: the constructor throws exactly for a missing symbol and for a symbol
\* that is not a Class, Interface or Trait; create never throws, returns
\* null for an empty name and for a name no indexed class-like symbol has,
\* and otherwise an aggregate whose root is class-like.
C17_ConstructorThrowsCreateDoesNot ==
    /\ last.op = "construct" =>
          (last.threw <=> (last.symbols = <<>>
                            \/ last.symbols[1].kind \notin ClassLikeKinds))
    /\ last.op = "create" =>
          /\ ~last.threw
          /\ last.symbols = <<>> <=>
                 ExactMatches(Store, last.text, ClassLikeKinds) = {}
          /\ last.symbols # <<>> =>
                 /\ last.symbols[1] \in ExactMatches(Store, last.text, ClassLikeKinds)
                 /\ agg.symbol = last.symbols[1]

\* the constructor was called with a symbol that is not class-like and threw
C17_Witness ==
    /\ last.op = "construct" /\ last.threw
    /\ last.symbols # <<>>

TypesNamed(st, name) ==
    {s \in StoreSymbols(st) :
        s.kind \in ClassLikeKinds /\ ToLower(s.name) = ToLower(name)}

\* the types named by the clauses of the types in from
Parents(st, from) ==
    UNION {TypesNamed(st, stub.name) :
              stub \in UNION {Range(s.associated) : s \in from}}

\* the types reached from the root along extends and implements clauses,
\* by distance: the first element holds the root, the element after it the
\* associates named by the root's clauses, and so on, each associate at
\* the distance it is first reached at; layers holds the elements found so
\* far and before the associates in them
RECURSIVE LayersFrom(_, _, _)
LayersFrom(st, layers, before) ==
    LET next == Parents(st, layers[Len(layers)]) \ before
    IN IF next = {} THEN layers
       ELSE LayersFrom(st, Append(layers, next), before \cup next)

Layers(st, root) == LayersFrom(st, <<{root}>>, {})

\* the resolved associates of root
Closure(st, root) ==
    LET layers == Layers(st, root)
    IN UNION {layers[d] : d \in 2..Len(layers)}

NonPrivate(st, type) ==
    SelectSeq(ChildrenOf(st, type), LAMBDA x : "Private" \notin x.modifiers)

\* members(None) was called without a predicate on a class
MembersNoneOfClass ==
    /\ last.op = "members"
    /\ last.root.kind = "Class"
    /\ last.strategy = "None"
    /\ last.filter = NoFilter

\* C11 as stated: for a Class root with k members and N resolved associates
\* with k members each, members(None) without a predicate returns exactly
\* (N + 1) * k entries.
C11_Original ==
    LET k == Len(ChildrenOf(Store, last.root))
        assoc == Closure(Store, last.root)
    IN (MembersNoneOfClass /\ \A t \in assoc : Len(ChildrenOf(Store, t)) = k)
          => Len(last.symbols) = (Cardinality(assoc) + 1) * k

\* C11, amended: for a Class root with k members and N resolved associates
\* with k non-private members each, members(None) without a predicate
\* returns exactly (N + 1) * k entries: the private members of an associate
\* are not returned.
C11_NoneReturnsEveryVisibleMember ==
    LET k == Len(ChildrenOf(Store, last.root))
        assoc == Closure(Store, last.root)
    IN (MembersNoneOfClass /\ \A t \in assoc : Len(NonPrivate(Store, t)) = k)
          => Len(last.symbols) = (Cardinality(assoc) + 1) * k

\* members(None) ran on C, which has one member, as have its four associates
C11_Witness ==
    /\ MembersNoneOfClass
    /\ Len(ChildrenOf(Store, last.root)) = 1
    /\ Cardinality(Closure(Store, last.root)) = 4
    /\ \A t \in Closure(Store, last.root) : Len(NonPrivate(Store, t)) = 1
    /\ Len(last.symbols) = 5

\* the types whose members _classMembers merges for root, in order: the
\* root, then its non-trait associates in resolution order
MergedTypes(st, root) ==
    <<root>> \o SelectSeq(GetAssociated(st, root, FALSE), LAMBDA t : t.kind # "Trait")

\* the members of the i-th merged type that a listing can show: those the
\* predicate accepts, without the private members of an associate
Visible(st, root, predicate, i) ==
    SelectSeq(ChildrenOf(st, MergedTypes(st, root)[i]),
              LAMBDA x : Passes(predicate, x) /\ (i = 1 \/ "Private" \notin x.modifiers))

\* the visible declarations of name in the i-th merged type
Declared(st, root, predicate, i, name) ==
    {x \in Range(Visible(st, root, predicate, i)) : x.name = name}

\* the places among the merged types that declare name, and that declare it
\* with a member that is not magic
Declaring(st, root, predicate, name) ==
    {i \in 1..Len(MergedTypes(st, root)) : Declared(st, root, predicate, i, name) # {}}

DeclaringReal(st, root, predicate, name) ==
    {i \in 1..Len(MergedTypes(st, root)) :
        \E x \in Declared(st, root, predicate, i, name) : "Magic" \notin x.modifiers}

\* the names the merged types declare visibly
VisibleNames(st, root, predicate) ==
    {x.name : x \in UNION {Range(Visible(st, root, predicate, i)) :
                              i \in 1..Len(MergedTypes(st, root))}}

Least(S) == CHOOSE i \in S : \A j \in S : i <= j

Greatest(S) == CHOOSE i \in S : \A j \in S : j <= i

\* the entries of a result that have the name
Named(symbols, name) == SelectSeq(symbols, LAMBDA x : x.name = name)

\* members(strategy) was called on a class
MembersOfClass(strategy) ==
    /\ last.op = "members"
    /\ last.root.kind = "Class"
    /\ last.strategy = strategy

\* C12: members(Override) holds exactly one entry for every name the root
\* and its non-trait associates declare, the declaration of the
\* most-derived type that declares the name: the root's if it declares it,
\* otherwise that of the earliest associate in resolution order (a real
\* member being preferred to a magic one).
C12_OverridePrefersMostDerived ==
    MembersOfClass("Override") =>
        \A name \in VisibleNames(Store, last.root, last.filter) :
            LET all == Declaring(Store, last.root, last.filter, name)
                real == DeclaringReal(Store, last.root, last.filter, name)
                first == IF real # {} THEN Least(real) ELSE Least(all)
            IN /\ Len(Named(last.symbols, name)) = 1
               /\ Named(last.symbols, name)[1]
                      \in Declared(Store, last.root, last.filter, first, name)

\* the declarations of name a listing can show from the d-th element of
\* layers: the root's own from the first, and the non-private ones of the
\* non-trait associates from the others
DeclaredAt(st, layers, predicate, d, name) ==
    {x \in UNION {Range(ChildrenOf(st, t)) : t \in {u \in layers[d] : u.kind # "Trait"}} :
        /\ x.name = name
        /\ Passes(predicate, x)
        /\ d = 1 \/ "Private" \notin x.modifiers}

\* the elements of layers that declare name
Distances(st, layers, predicate, name) ==
    {d \in 1..Len(layers) : DeclaredAt(st, layers, predicate, d, name) # {}}

\* the names declared in some element of layers
DeclaredNames(st, layers, predicate) ==
    {x.name : x \in {y \in StoreSymbols(st) :
                        Distances(st, layers, predicate, y.name) # {}}}

SameMember(s, x) ==
    /\ x.kind = s.kind
    /\ x.modifiers = s.modifiers
    /\ IF s.kind = "Method" THEN ToLower(x.name) = ToLower(s.name)
       ELSE x.name = s.name

\* the declarations of the member s by the types in types
DeclarationsOf(st, types, s) ==
    {x \in UNION {Range(ChildrenOf(st, t)) : t \in types} : SameMember(s, x)}

Classes(types) == {t \in types : t.kind = "Class"}

\* the type that declares the member s
Owner(st, s) == CHOOSE t \in TypesNamed(st, s.scope) : s \in Range(ChildrenOf(st, t))

\* s is a method of a class at the bottom of a chain of classes, each
\* extending the next and each declaring the method with the same name and
\* modifiers, not private; the interfaces on the way do not declare it
ClassChain(st, s) ==
    /\ s # Null
    /\ s.kind = "Method"
    /\ "Private" \notin s.modifiers
    /\ \E t \in TypesNamed(st, s.scope) : s \in Range(ChildrenOf(st, t))
    /\ LET layers == Layers(st, Owner(st, s)) IN
       /\ Owner(st, s).kind = "Class"
       /\ Owner(st, s) \notin Closure(st, Owner(st, s))
       /\ Len(layers) > 1
       /\ \A d \in 1..Len(layers) :
             /\ Cardinality(Classes(layers[d])) = 1
             /\ DeclarationsOf(st, Classes(layers[d]), s) # {}
             /\ DeclarationsOf(st, layers[d] \ Classes(layers[d]), s) = {}

\* the class at the top of the chain of s
Top(st, s) ==
    LET layers == Layers(st, Owner(st, s)) IN Classes(layers[Len(layers)])

\* C14: in a chain of classes C extends B extends A that each declare a
\* non-private method of the same name and modifiers, findBaseMember of the
\* method of C, and of the method of B, returns the declaration of A.
C14_FindBaseMemberReturnsTopOfChain ==
    (last.op = "findBaseMember" /\ ClassChain(Store, last.symbol)) =>
        last.result \in DeclarationsOf(Store, Top(Store, last.symbol), last.symbol)

\* findBaseMember was called with the method m of C, which B and A declare
\* too, and returned the declaration of A
C14_Witness ==
    /\ last.op = "findBaseMember"
    /\ ClassChain(Store, last.symbol)
    /\ last.symbol.scope = <<"C">>
    /\ Len(Layers(Store, Owner(Store, last.symbol))) = 3
    /\ last.result.scope = <<"A">>
    /\ last.result # last.symbol

\* findBaseMember returns its argument without looking anything up
ReturnsArgument(s) ==
    \/ s = Null
    \/ Len(s.scope) = 0
    \/ s.kind \notin {"Property", "Method", "ClassConstant"}
    \/ "Private" \in s.modifiers

\* the distances from the type named by the scope of s at which an
\* ancestor declares the member s
AncestorDistances(st, s) ==
    LET layers == Layers(st, CHOOSE t \in TypesNamed(st, s.scope) : TRUE)
    IN {d \in 2..Len(layers) : DeclarationsOf(st, layers[d], s) # {}}

\* the declarations of s by the furthest ancestors that declare it
FurthestDeclarations(st, s) ==
    LET layers == Layers(st, CHOOSE t \in TypesNamed(st, s.scope) : TRUE)
    IN DeclarationsOf(st, layers[Greatest(AncestorDistances(st, s))], s)

\* C15: findBaseMember(s) returns s when s is null, has no scope, is
\* private, is not a Property, Method or ClassConstant, or when no ancestor
\* of the type named by its scope declares a member of the same kind,
\* modifiers and name; otherwise, for a class and for an interface scope,
\* it returns the declaration of the furthest ancestor that declares one.
C15_FindBaseMemberReturnsFurthest ==
    last.op = "findBaseMember" =>
        IF ReturnsArgument(last.symbol) THEN last.result = last.symbol
        ELSE IF TypesNamed(Store, last.symbol.scope) = {} THEN last.result = last.symbol
        ELSE IF AncestorDistances(Store, last.symbol) = {} THEN last.result = last.symbol
        ELSE last.result \in FurthestDeclarations(Store, last.symbol)

\* the private members of the root that the predicate accepts
OwnPrivate(st, root, predicate) ==
    {x \in Range(ChildrenOf(st, root)) :
        "Private" \in x.modifiers /\ Passes(predicate, x)}

\* C19: for a Class root, whatever the merge strategy and the predicate, no
\* member that members() returns from an associate is private, and the
\* root's own private members that the predicate accepts are returned.
C19_PrivateMembersOfRootOnly ==
    (last.op = "members" /\ last.root.kind = "Class") =>
        /\ \A x \in Range(last.symbols) :
              "Private" \in x.modifiers => x \in Range(ChildrenOf(Store, last.root))
        /\ OwnPrivate(Store, last.root, last.filter) \subseteq Range(last.symbols)

\* the places among the merged types that declare name with a magic member
DeclaringMagic(st, root, predicate, name) ==
    {i \in 1..Len(MergedTypes(st, root)) :
        \E x \in Declared(st, root, predicate, i, name) : "Magic" \in x.modifiers}

\* C20: under Override, Documented and Base, and in whichever order the
\* entries are seen, a name that the merged types declare both with a magic
\* and with a non-magic member has the non-magic member in the result.
C20_RealMemberWinsOverMagic ==
    (last.op = "members" /\ last.root.kind = "Class" /\ last.strategy # "None") =>
        \A name \in VisibleNames(Store, last.root, last.filter) :
            (/\ DeclaringMagic(Store, last.root, last.filter, name) # {}
             /\ DeclaringReal(Store, last.root, last.filter, name) # {})
                => /\ Named(last.symbols, name) # <<>>
                   /\ \A x \in Range(Named(last.symbols, name)) :
                         "Magic" \notin x.modifiers

(***************************************************************************)
(* Properties of the symbol tables, under Spec.                            *)
(***************************************************************************)
\* the nodes of the tree of t at and below n, following node.children
RECURSIVE Subtree(_, _)
Subtree(t, n) ==
    {n} \cup UNION {Subtree(t, c) : c \in Range(Children(t, n))}

RegisteredUris(st) == {u \in Uris : st._tableIndex[u] # NoTable}

\* symbolCount is the length of symbols and the number of nodes of the
\* tree without the root
CountsItsSymbols(t) ==
    /\ SymbolCount(t) = Len(Symbols(t))
    /\ Range(Symbols(t)) = Subtree(t, t.nodes[1]) \ {t.nodes[1]}
    /\ Len(Symbols(t)) = Cardinality(Subtree(t, t.nodes[1])) - 1

\* C21: for every symbol table, before and after pruneScopedVars,
\* symbolCount equals the length of symbols, which is the number of nodes of
\* the tree minus the root.
C21_SymbolCountIsLengthOfSymbols ==
    /\ \A u \in RegisteredUris(Store) : CountsItsSymbols(_tableIndex[u])
    /\ snap # NoSnap /\ snap.table # NoTable => CountsItsSymbols(snap.table)

\* pruneScopedVars has just taken a variable out of a table
C21_Witness ==
    /\ last.op = "closeDocument"
    /\ SymbolCount(_tableIndex[last.uri]) < SymbolCount(snap.table)
    /\ SymbolCount(_tableIndex[last.uri]) > 0

\* the index items that carry the hash of uri
ItemsOf(st, uri) ==
    {item \in UNION {Range(st._symbolIndex[i].items) : i \in 1..Len(st._symbolIndex)} :
        item.uriHash = uri}

\* C22: pruneScopedVars on a registered table takes out only Variable
\* children of Function and Method nodes, changes no answer of find or
\* match, and leaves the name index such that a later remove of the uri
\* deletes every entry add made for it.
C22_PruneKeepsIndexConsistent ==
    last.op = "closeDocument" =>
        LET old == snap.table
            new == _tableIndex[last.uri]
        IN /\ Range(new.nodes) \subseteq Range(old.nodes)
           /\ \A n \in Range(old.nodes) \ Range(new.nodes) :
                 /\ n.kind = "Variable"
                 /\ NodeById(old, n.parent).kind \in {"Function", "Method"}
           /\ _symbolIndex = snap.store._symbolIndex
           /\ SameAnswers(Store, snap.store)
           /\ ItemsOf(StoreRemove(Store, last.uri).store, last.uri) = {}

\* a variable was pruned from a table that has index entries, in a store
\* that holds another table as well
C22_Witness ==
    /\ last.op = "closeDocument"
    /\ Len(_tableIndex[last.uri].nodes) < Len(snap.table.nodes)
    /\ ItemsOf(Store, last.uri) # {}
    /\ TableCount(Store) = MaxUri

\* the name index holds an entry for the node n under each of its keys
HasEntry(st, n) ==
    /\ n.location # NoLocation
    /\ \A k \in Range(SymbolKeys(n)) : EntryCount(st, k, StubOf(n)) > 0

MembersInScope(st, scope) ==
    UNION {Range(ChildrenOf(st, root))
              \cup UNION {Range(NonPrivate(st, t)) : t \in Closure(st, root)} :
           root \in UNION {TypesNamed(st, name) : name \in Range(atomicClassArray(scope))}}

\* x is what a member reference names: a Method of that name without
\* regard to case, or a Property or ClassConstant of exactly that name
NamedByReference(ref, x) ==
    /\ x.kind = ref.kind
    /\ IF ref.kind = "Method" THEN ToLower(x.name) = ToLower(ref.name)
       ELSE x.name = ref.name

\* C24: findSymbolsByReference returns, for a Method reference, members of
\* reference.scope that are Methods named as the reference ignoring case,
\* for a Property or ClassConstant reference members of that kind with
\* exactly the reference's name, and all of them, as under strategy None,
\* when no merge strategy is passed.
C24_MemberReferenceLookup ==
    (last.op = "findSymbolsByReference"
        /\ last.ref.kind \in {"Method", "Property", "ClassConstant"}) =>
        LET named == {x \in MembersInScope(Store, last.ref.scope) :
                         NamedByReference(last.ref, x)}
        IN /\ ~last.threw
           /\ Range(last.symbols) \subseteq named
           /\ last.strategy \in {"undefined", "None"} =>
                 /\ Range(last.symbols) = named
                 /\ NoDuplicates(last.symbols)

\* a Property reference, with no strategy passed, found the one property
\* with exactly its name and not the one that differs in case
C24_Witness ==
    /\ last.op = "findSymbolsByReference"
    /\ last.ref.kind = "Property"
    /\ last.strategy = "undefined"
    /\ Len(last.symbols) = 1
    /\ \E x \in MembersInScope(Store, last.ref.scope) :
          /\ x.kind = "Property"
          /\ x.name # last.ref.name
          /\ ToLower(x.name) = ToLower(last.ref.name)

(***************************************************************************)
(* Properties of variable references, under Spec.                          *)
(***************************************************************************)
\* a store that holds the table of uri and nothing else: no other table and
\* no name index entry
OnlyTable(st, uri) == [EmptyStore EXCEPT !._tableIndex[uri] = st._tableIndex[uri]]

\* C25: for a Variable or Parameter reference findSymbolsByReference
\* returns at most one symbol, an immediate child of kind Variable or
\* Parameter, with exactly the reference's name, of the scope that
\* table.scope computes at the reference's start in the table registered
\* under the reference's uriHash; the answer does not depend on the other
\* tables and on the name index.
C25_VariableReferenceIsLocal ==
    (last.op = "findSymbolsByReference" /\ last.ref # Null
        /\ last.ref.kind \in {"Variable", "Parameter"}) =>
        LET uri == last.ref.location.uriHash
            table == _tableIndex[uri]
            alone == FindSymbolsByReference(OnlyTable(Store, uri), last.ref, "undefined")
        IN /\ Len(last.symbols) <= 1
           /\ last.symbols # <<>> =>
                 /\ table # NoTable
                 /\ Scope(table, last.ref.location.range.start) # Null
                 /\ last.symbols[1].parent = Scope(table, last.ref.location.range.start).id
                 /\ last.symbols[1] \in Range(table.nodes)
                 /\ last.symbols[1].kind \in {"Variable", "Parameter"}
                 /\ last.symbols[1].name = last.ref.name
           /\ last.symbols = alone.symbols
           /\ last.threw = alone.threw

\* a variable was found in the function at the reference's position, in a
\* store that holds another table and name index entries
C25_Witness ==
    /\ last.op = "findSymbolsByReference" /\ last.ref # Null
    /\ last.ref.kind = "Variable"
    /\ Len(last.symbols) = 1
    /\ last.symbols[1].kind = "Variable"
    /\ TableCount(Store) = MaxUri
    /\ _symbolIndex # <<>>

(***************************************************************************)
(* Properties of scope, absoluteScope and nameResolver, under TableSpec.   *)
(***************************************************************************)
\* a is above n in the tree of t
RECURSIVE Above(_, _, _)
Above(t, a, n) ==
    /\ n.parent # 0
    /\ n.parent = a.id \/ Above(t, a, NodeById(t, n.parent))

\* the nodes that can be the scope of pos: of a scope kind, not a use
\* rule, with a range that contains pos, and, for the absolute scope, not
\* an anonymous function
ScopeCandidates(t, pos, absolute) ==
    {n \in Range(t.nodes) :
        /\ n.kind \in {"Class", "Interface", "Trait", "Function", "Method", "File"}
        /\ "Use" \notin n.modifiers
        /\ n.location # NoLocation
        /\ isInRange(pos, n.location.range) = 0
        /\ ~(absolute /\ n.kind = "Function" /\ "Anonymous" \in n.modifiers)}

\* the innermost of them, Null when there is none
Innermost(t, candidates) ==
    IF candidates = {} THEN Null
    ELSE CHOOSE n \in candidates : \A m \in candidates \ {n} : Above(t, m, n)

\* C26: scope(pos) returns the innermost node whose range contains pos
\* among the nodes of kind Class, Interface, Trait, Function, Method or
\* File that are not use rules; absoluteScope(pos) returns the innermost
\* such node that is not an anonymous Function: it never returns one, and
\* it reports a named scope nested inside one.
C26_ScopeIsInnermost ==
    /\ last.op = "scope" =>
          /\ \A n \in ScopeCandidates(_tableIndex[1], last.pos, FALSE) \ {last.result} :
                Above(_tableIndex[1], n, last.result)
          /\ last.result = Innermost(_tableIndex[1],
                                     ScopeCandidates(_tableIndex[1], last.pos, FALSE))
    /\ last.op = "absoluteScope" =>
          /\ last.result = Innermost(_tableIndex[1],
                                     ScopeCandidates(_tableIndex[1], last.pos, TRUE))
          /\ last.result # Null =>
                ~(last.result.kind = "Function" /\ "Anonymous" \in last.result.modifiers)

\* absoluteScope returned a named scope that lies inside an anonymous
\* function
C26_Witness ==
    /\ last.op = "absoluteScope"
    /\ last.result # Null
    /\ \E a \in Range(_tableIndex[1].nodes) :
          /\ a.kind = "Function" /\ "Anonymous" \in a.modifiers
          /\ Above(_tableIndex[1], a, last.result)

\* position a is at or before position b
AtOrBefore(a, b) ==
    a.line < b.line \/ (a.line = b.line /\ a.character <= b.character)

\* a node that the name resolver reflects as a use rule
IsUseRule(n) == "Use" \in n.modifiers /\ n.kind \in {"Class", "Function", "Constant"}

\* the located nodes of t that start at or before pos, in source order
StartedBy(t, pos) ==
    SelectSeq(t.nodes, LAMBDA n : n.location # NoLocation
                                   /\ AtOrBefore(n.location.range.start, pos))

\* the name resolver that reflects exactly the nodes that start at or
\* before pos: their use rules, the last namespace among them and the
\* classes whose range contains pos
ResolverAt(t, pos) ==
    LET started    == StartedBy(t, pos)
        namespaces == SelectSeq(started, LAMBDA n : ~IsUseRule(n) /\ n.kind = "Namespace")
    IN [rules      |-> SelectSeq(started, IsUseRule),
        namespace  |-> IF namespaces = <<>> THEN Null ELSE namespaces[Len(namespaces)],
        classStack |-> SelectSeq(started, LAMBDA n : /\ ~IsUseRule(n)
                                                      /\ n.kind = "Class"
                                                      /\ isInRange(pos, n.location.range) = 0)]

\* C27: nameResolver(pos) reflects no use rule, namespace or class whose
\* start is after pos (on a later line, or on the same line at a later
\* character), and reflects every use rule and namespace that starts at or
\* before pos and every class on the path to pos.
C27_NameResolverHaltsAtPosition ==
    last.op = "nameResolver" => last.result = ResolverAt(_tableIndex[1], last.pos)

\* the first half alone: nothing that starts after pos is reflected
C27_NothingAfterPosition ==
    last.op = "nameResolver" =>
        LET reflected == Range(last.result.rules) \cup Range(last.result.classStack)
                         \cup (IF last.result.namespace = Null THEN {}
                               ELSE {last.result.namespace})
        IN \A n \in reflected : AtOrBefore(n.location.range.start, last.pos)

\* the second half alone: the classes that contain pos are on the stack
C27_ClassesOnPathReflected ==
    last.op = "nameResolver" =>
        \A n \in Range(_tableIndex[1].nodes) :
            (/\ n.kind = "Class" /\ ~IsUseRule(n)
             /\ n.location # NoLocation
             /\ isInRange(last.pos, n.location.range) = 0)
            => n \in Range(last.result.classStack)

(***************************************************************************)
(* Properties of isBaseClass and isAssociated, under MembersSpec.          *)
(***************************************************************************)
\* the types of the resolved closure of root that are named name,
\* ignoring case
ClosureNamed(root, name) ==
    {s \in Closure(Store, root) : ToLower(s.name) = ToLower(name)}

\* C28: isBaseClass(name) is true exactly when the resolved closure of the
\* aggregate contains a Class named name, ignoring case; isAssociated(name)
\* is true exactly when the closure contains any symbol named name,
\* ignoring case, and is false for the empty name.
C28_ExistenceOverClosure ==
    /\ last.op = "isBaseClass" =>
          (last.result <=> \E s \in ClosureNamed(last.root, last.name) : s.kind = "Class")
    /\ last.op = "isAssociated" =>
          (last.result <=> (last.name # <<>> /\ ClosureNamed(last.root, last.name) # {}))

\* the half about isAssociated alone
C28_IsAssociatedOverClosure ==
    last.op = "isAssociated" =>
        (last.result <=> (last.name # <<>> /\ ClosureNamed(last.root, last.name) # {}))

(***************************************************************************)
(* Properties of the resolution of associated stubs, under Spec.           *)
(***************************************************************************)
\* a pass of the loop of _getAssociated appended a symbol for the stub at
\* the head of the queue
Resolves ==
    /\ agg.pc = "running"
    /\ agg.a.queue # <<>>
    /\ Len(agg'.a._associated) = Len(agg.a._associated) + 1

\* C29: each associated stub (kind, name) is resolved to an indexed symbol
\* whose name matches the stub's and whose kind is the stub's kind: a Class
\* stub is never resolved to an Interface or Trait of the same name; a
\* symbol that is already in the closure is skipped.
C29_StubResolvedByKind ==
    [][Resolves =>
          LET stub == Head(agg.a.queue)
              symbol == agg'.a._associated[Len(agg'.a._associated)]
          IN /\ ToLower(symbol.name) = ToLower(stub.name)
             /\ symbol.kind = stub.kind
             /\ symbol \in StoreSymbols(Store)
             /\ symbol \notin Range(agg.a._associated)]_vars

\* the same without the kind of the stub: the symbol is class-like
C29_StubResolvedToClassLike ==
    [][Resolves =>
          LET stub == Head(agg.a.queue)
              symbol == agg'.a._associated[Len(agg'.a._associated)]
          IN /\ ToLower(symbol.name) = ToLower(stub.name)
             /\ symbol.kind \in {"Class", "Interface", "Trait"}
             /\ symbol \in StoreSymbols(Store)
             /\ symbol \notin Range(agg.a._associated)]_vars

(***************************************************************************)
(* Properties of _mergeMembers under MemberMergeStrategy.Documented,       *)
(* checked under MergeSpec.                                                *)
(***************************************************************************)
\* s has a doc-comment that is more than an inheritdoc tag
RealDoc(s) ==
    /\ s.doc # NoDoc
    /\ Trim(ToLower(s.doc.description)) \notin
          {<<"@", "i", "n", "h", "e", "r", "i", "t", "d", "o", "c">>,
           <<"{", "@", "i", "n", "h", "e", "r", "i", "t", "d", "o", "c", "}">>}

\* the entry the Documented rule keeps among the same-named entries
\* e[1..k], none of them magic: the first-seen one is replaced by a later
\* one with a doc-comment for as long as the one kept has none or only an
\* inheritdoc tag
RECURSIVE KeptFrom(_, _)
KeptFrom(kept, later) ==
    IF later = <<>> THEN kept
    ELSE KeptFrom(IF ~RealDoc(kept) /\ later[1].doc # NoDoc THEN later[1] ELSE kept,
                  Tail(later))

DocumentedKeeps(entries) == KeptFrom(entries[1], Tail(entries))

\* the entries of a list that are named name
EntriesNamed(symbols, name) == SelectSeq(symbols, LAMBDA s : s.name = name)

\* a call of _mergeMembers with strategy Documented has returned
MergedDocumented == last.op = "_mergeMembers" /\ last.strategy = "Documented"

\* what C30 says of the entries named name
DocumentedRule(name) ==
    LET entries == EntriesNamed(last.symbols, name)
        kept    == Range(EntriesNamed(last.result, name))
    IN /\ (\A i \in 1..Len(entries) : "Magic" \notin entries[i].modifiers)
          => kept = {DocumentedKeeps(entries)}
       /\ \A i \in 1..Len(last.symbols) :
             LET s == last.symbols[i] IN
             (/\ s.name = name
              /\ RealDoc(s)
              /\ "Magic" \notin s.modifiers
              /\ s \in Range(MergeMembers(SubSeq(last.symbols, 1, i), "Documented")))
             => kept = {s}

\* C30: under strategy Documented the entry kept for a name is the
\* first-seen one unless that entry has no doc-comment, or one whose
\* description is exactly @inheritdoc or {@inheritdoc} after trimming and
\* lowercasing, and a later same-named entry has a doc-comment, in which
\* case the later entry replaces it; an entry with a real doc-comment that
\* is kept is never replaced by a later entry, unless it is magic and the
\* later one is not.
C30_DocumentedKeepsFirstDocumented ==
    MergedDocumented =>
        \A name \in {last.symbols[i].name : i \in 1..Len(last.symbols)} :
            DocumentedRule(name)

\* the same for the names that no JavaScript object inherits
C30_DocumentedOrdinaryNames ==
    MergedDocumented =>
        \A name \in {last.symbols[i].name : i \in 1..Len(last.symbols)}
                    \ ObjectPrototypeNames :
            DocumentedRule(name)

(***************************************************************************)
(* Properties of findMembers, under ReferenceSpec.                         *)
(***************************************************************************)
\* the atomic class names of a type-string: its maximal non-empty parts
\* without the separator
AtomicNames(scope) ==
    {SubSeq(scope, i, j) : i \in 1..Len(scope), j \in 1..Len(scope)} \cap
    {n \in UNION {[1..k -> Range(scope)] : k \in 1..Len(scope)} :
        /\ \A x \in 1..Len(n) : n[x] # "|"
        /\ \E i \in 1..Len(scope) :
              /\ i + Len(n) - 1 <= Len(scope)
              /\ SubSeq(scope, i, i + Len(n) - 1) = n
              /\ (i = 1 \/ scope[i - 1] = "|")
              /\ (i + Len(n) - 1 = Len(scope) \/ scope[i + Len(n)] = "|")}

\* the members of the types the names of scope resolve to
MembersOfScope(scope, strategy, predicate) ==
    UNION {Range(Members(Store, Create(Store, n), strategy, predicate)) :
              n \in {x \in AtomicNames(scope) : Create(Store, x) # Null}}

\* C31: findMembers(scope, strategy, predicate) returns the union, over the
\* atomic class names of scope that resolve to a class-like symbol, of that
\* type's members(strategy, predicate): each symbol once, nothing for a
\* name that resolves to nothing, and distinct symbols of one name both.
C31_FindMembersIsUnionWithoutRepeats ==
    last.op = "findMembers" =>
        /\ Range(last.symbols) = MembersOfScope(last.scope, last.strategy, last.filter)
        /\ \A i, j \in 1..Len(last.symbols) : last.symbols[i] = last.symbols[j] => i = j

\* a union that reaches the members of B through A and through B itself was
\* asked for with strategy None, and the result holds two symbols of one
\* name
C31_Witness ==
    /\ last.op = "findMembers"
    /\ last.scope = <<"a", "|", "B">>
    /\ last.strategy = "None"
    /\ Len(FindMembersLoop(Store, atomicClassArray(last.scope), last.strategy,
                           last.filter)) > Len(last.symbols)
    /\ \E i, j \in 1..Len(last.symbols) :
          i # j /\ last.symbols[i].name = last.symbols[j].name

(***************************************************************************)
(* Properties of the members of used traits, under ReferenceSpec.          *)
(***************************************************************************)
\* the store without the document of the trait
WithoutTrait == StoreRemove(Store, 2).store

\* the children of the traits of the closure of root that the caller's
\* predicate accepts and that are not private
TraitMembers(root, predicate) ==
    LET traits == {t \in Closure(Store, root) : t.kind = "Trait"} IN
    {x \in UNION {Range(ChildrenOf(Store, t)) : t \in traits} :
        "Private" \notin x.modifiers /\ Passes(predicate, x)}

\* C32: for a Class root the members of Trait associates take no part in
\* the name merge: under every strategy the result is the merged members
\* of the root and its non-trait associates, as they are without the
\* trait, followed by the members of the traits that pass the caller's
\* predicate and are not private.
C32_TraitMembersAppendedUnmerged ==
    (last.op = "members" /\ last.root.kind = "Class") =>
        LET merged == Members(WithoutTrait, last.root, last.strategy, last.filter)
            traits == TraitMembers(last.root, last.filter)
        IN /\ Len(last.symbols) = Len(merged) + Cardinality(traits)
           /\ SubSeq(last.symbols, 1, Len(merged)) = merged
           /\ {last.symbols[i] : i \in Len(merged) + 1..Len(last.symbols)} = traits

\* under Override the class and the trait it uses declare a method of the
\* same name, and the result holds both
C32_Witness ==
    /\ last.op = "members"
    /\ last.strategy = "Override"
    /\ \E i, j \in 1..Len(last.symbols) :
          /\ i < j
          /\ last.symbols[i].name = last.symbols[j].name
          /\ last.symbols[i].kind = "Method"
          /\ last.symbols[j].kind = "Method"
          /\ last.symbols[i].scope = <<"A">>
          /\ last.symbols[j] \in TraitMembers(last.root, last.filter)

(***************************************************************************)
(* Properties of BinarySearch, under SearchSpec.                           *)
(***************************************************************************)
\* the elements of the array of the last call that compare equal
EqualElements == {x \in Range(last.sortedArray) : last.compare[x] = 0}

\* s with x inserted at index rank (counted from 0)
Inserted(s, rank, x) == SubSeq(s, 1, rank) \o <<x>> \o SubSeq(s, rank + 1, Len(s))

\* C33: for every sequence sorted consistently with a three-way comparator,
\* find returns an element that compares equal when there is one and null
\* otherwise; rank returns the index of an equal element when there is one,
\* and otherwise the index at which an element that compares equal can be
\* inserted with the sequence staying sorted; this for every length from 0.
C33_FindAndRankOnSortedArray ==
    /\ last.op = "BinarySearch.find" =>
          IF EqualElements = {} THEN last.result = Null
          ELSE last.result \in EqualElements
    /\ last.op = "BinarySearch.rank" =>
          /\ last.result \in 0..Len(last.sortedArray)
          /\ IF EqualElements # {}
             THEN last.sortedArray[last.result + 1] \in EqualElements
             ELSE LET new == [element |-> 0]
                      with == Inserted(last.sortedArray, last.result, new)
                      value == [x \in Range(with) |->
                                   IF x = new THEN 0 ELSE last.compare[x]]
                  IN \A i, j \in 1..Len(with) : i < j => value[with[i]] <= value[with[j]]

\* rank was asked on an array of full length that holds no equal element,
\* and the insertion index lies inside the array
C33_Witness ==
    /\ last.op = "BinarySearch.rank"
    /\ Len(last.sortedArray) = MaxLength
    /\ EqualElements = {}
    /\ last.result \in 1..MaxLength - 1

(***************************************************************************)
(* Properties of SuffixArray, under SuffixSpec.                            *)
(***************************************************************************)
\* the buckets whose key starts with the text as the SuffixArray folds it
BucketsWithPrefix(text) ==
    {n \in Range(_symbolIndex._nodeArray) :
        StartsWith(n.key, LcText(_symbolIndex, text))}

\* C34: for every index content and every text the prefix query returns
\* the items of exactly the buckets whose key starts with the case-folded
\* text: no bucket whose key lacks the prefix, also when no key has it, and
\* every bucket whose key has it.
C34_MatchReturnsPrefixBuckets ==
    last.op = "SuffixArray.match" =>
        /\ Range(last.nodes) = BucketsWithPrefix(last.text)
        /\ Range(last.result) =
              UNION {Range(n.items) : n \in BucketsWithPrefix(last.text)}

\* the first half alone: no bucket without the prefix is returned
C34_NoBucketWithoutPrefix ==
    last.op = "SuffixArray.match" => Range(last.nodes) \subseteq BucketsWithPrefix(last.text)

\* the second half alone: no bucket with the prefix is left out
C34_NoBucketOmitted ==
    last.op = "SuffixArray.match" => BucketsWithPrefix(last.text) \subseteq Range(last.nodes)

\* C35: after any sequence of add and remove, case-sensitive or not, the
\* bucket array is sorted consistently with the comparator it is searched
\* with (a search for a key sees negative results before the key's bucket
\* and positive ones after it), no two buckets have the same key, and no
\* bucket is empty.
C35_BucketsSortedDistinctNonEmpty ==
    LET nodes == _symbolIndex._nodeArray IN
    /\ \A i, j \in 1..Len(nodes) : i < j => Collate(nodes[j].key, nodes[i].key) < 0
    /\ \A i \in 1..Len(nodes) : nodes[i].items # <<>>

\* the same for the case-sensitive SuffixArray alone
C35_CaseSensitiveBuckets ==
    _symbolIndex._caseSensitive => C35_BucketsSortedDistinctNonEmpty

(***************************************************************************)
(* Properties of the closure with respect to its root, under MembersSpec.  *)
(***************************************************************************)
\* C36: the closure that associated() returns never contains the root
\* symbol of the aggregate, also when an associate names the root back;
\* so members(None) of a class lists no child of the root twice.
C36_ClosureExcludesRoot ==
    last.op = "members" =>
        /\ last.root \notin Range(GetAssociated(Store, last.root, FALSE))
        /\ (last.root.kind = "Class" /\ last.strategy = "None") =>
              \A i, j \in 1..Len(last.symbols) :
                  (/\ last.symbols[i] = last.symbols[j]
                   /\ last.symbols[i] \in Range(ChildrenOf(Store, last.root)))
                  => i = j

\* the same for the hierarchies in which no type names the root back
C36_AcyclicClosureExcludesRoot ==
    (last.op = "members"
        /\ \A t \in Closure(Store, last.root) :
              \A i \in 1..Len(t.associated) :
                  ToLower(t.associated[i].name) # ToLower(last.root.name)) =>
        last.root \notin Range(GetAssociated(Store, last.root, FALSE))

(***************************************************************************)
(* Properties of the memoised closure, under AggregateSpec.                *)
(***************************************************************************)
\* a call of associated(), members() or isAssociated() is made
ReadsClosure == last'.op \in {"associated", "members", "isAssociated"} /\ last' # last

\* C37: an aggregate resolves its closure at most once: once it is
\* resolved, every later call of associated(), members() or isAssociated()
\* on it answers from that closure, whatever add and remove calls are made
\* on the store in between, and the closure of the aggregate never
\* changes; an aggregate that resolves its closure for the first time
\* resolves it against the store as it is then.
C37_ClosureResolvedOnce ==
    [][/\ (agg.resolved /\ agg'.resolved) => agg'.a = agg.a
       /\ (agg.resolved /\ ReadsClosure) => last'.closure = agg.a._associated
       /\ (~agg.resolved /\ ReadsClosure) =>
             last'.closure = GetAssociated(Store, agg.symbol, FALSE)]_vars

\* associated() is answered from a closure that the store as it is now
\* would not give
C37_Witness ==
    /\ last.op = "associated"
    /\ last.closure # <<>>
    /\ last.closure # GetAssociated(Store, agg.symbol, FALSE)

\* a new aggregate of the same name, made after the store changed, resolved
\* the closure of the store as it is now
C37_WitnessNew ==
    /\ last.op = "isAssociated"
    /\ last.result
    /\ last.closure = GetAssociated(Store, agg.symbol, FALSE)

(***************************************************************************)
(* Properties of shutdown, under ShutdownSpec.                             *)
(***************************************************************************)
\* both operations have settled
BothSettled ==
    /\ last.op = "shutdown"
    /\ \A which \in Operations : last.chain[which] \notin {"none", "pending"}

\* the promise shutdown returned is resolved
Resolved == last.op = "shutdown" /\ last.promise = "resolved"

\* C38: shutdown with the cache not cleared starts both the close of the
\* reference store and the write of the symbol cache; its promise is
\* resolved by one call of resolve(), only after both have settled, never
\* rejects, and for every order of completion and every outcome of the two
\* operations it is resolved once both have settled.
C38_ShutdownResolvesOnceAfterBoth ==
    /\ [][(last = NoCall /\ last' # NoCall /\ ~cacheClear) =>
             /\ \A which \in Operations : last'.chain[which] = "pending"
             /\ last'.written = ToJSON(Store)
             /\ last'.promise = "pending"]_vars
    /\ [](last.op = "shutdown" =>
             /\ last.promise # "rejected"
             /\ last.resolveCalls <= 1
             /\ (last.promise = "resolved" <=> last.resolveCalls = 1)
             /\ (Resolved => BothSettled))
    /\ [][Resolved => Resolved']_vars
    /\ (BothSettled ~> Resolved)

\* the write failed and settled first, the close succeeded, and the promise
\* is resolved
C38_Witness ==
    /\ last.op = "shutdown"
    /\ last.promise = "resolved"
    /\ last.warned = <<"symbols">>
    /\ last.chain = [o \in Operations |-> "done"]
    /\ last.written._symbolCount > 0

\* both operations have settled, one of them by a rejection, and no handler
\* has run yet
C38_WitnessPending ==
    /\ BothSettled
    /\ last.promise = "pending"
    /\ last.chain["refs"] = "rejected"
    /\ ~last.refs /\ ~last.symbols

(***************************************************************************)
(* Properties of the earlier SymbolStore, under EarlierSpec.               *)
(***************************************************************************)
\* C39: in the earlier store, add of a table whose uri already has a table
\* raises the duplicate-key error and leaves the table map, the index and
\* symbolCount as they were, and add raises it in no other case;
\* onParsedDocumentChange never raises it, and afterwards the table of the
\* uri is the one read from the document.
C39_DuplicateAddRaisesAndKeepsStore ==
    /\ last.op = "add" =>
          /\ last.threw <=> last.had
          /\ last.threw => Store = snap.store
          /\ ~last.threw => _tableIndex[last.uri] = snap.table
    /\ last.op = "onParsedDocumentChange" =>
          /\ ~last.threw
          /\ _tableIndex[last.uri] = snap.table
          /\ _symbolCount = snap.store._symbolCount + SymbolCount(snap.table)
                - (IF last.had THEN SymbolCount(snap.store._tableIndex[last.uri]) ELSE 0)

\* add was called with another document for a uri that has a table
C39_Witness ==
    /\ last.op = "add"
    /\ last.threw
    /\ snap.table # _tableIndex[last.uri]
    /\ _symbolIndex # <<>>

\* onParsedDocumentChange was called for a uri that has a table
C39_WitnessChange ==
    /\ last.op = "onParsedDocumentChange"
    /\ last.had
    /\ snap.store._tableIndex[last.uri] # snap.table

(***************************************************************************)
(* Properties of documentSymbols, under DocumentSpec.                      *)
(***************************************************************************)
\* C40: documentSymbols(uri) does not raise, returns one record per symbol
\* of the table registered for uri and the empty list when there is none,
\* and leaves every stored symbol, its kind included, as it was.
C40_DocumentSymbolsReadOnly ==
    last.op = "documentSymbols" =>
       /\ ~last.threw
       /\ _tableIndex = snap.store._tableIndex
       /\ IF last.had THEN Len(last.symbols) = Len(_tableIndex[last.uri].symbols)
          ELSE last.symbols = <<>>

\* the kinds whose case assigns si.kind
KindsWrittenToSi ==
    {SymbolKind.Class, SymbolKind.Constant, SymbolKind.Function, SymbolKind.Interface}

\* for a table of classes, constants, functions and interfaces, and for a
\* uri without a table, the call is the read-only query
C40_ReadOnlyForFourKinds ==
    (/\ last.op = "documentSymbols"
     /\ last.had => \A i \in 1..Len(snap.store._tableIndex[last.uri].symbols) :
                       snap.store._tableIndex[last.uri].symbols[i].kind
                          \in KindsWrittenToSi) =>
       /\ ~last.threw
       /\ _tableIndex = snap.store._tableIndex
       /\ IF last.had
          THEN /\ Len(last.symbols) = Len(_tableIndex[last.uri].symbols)
               /\ \A i \in 1..Len(last.symbols) : last.symbols[i].kind # 0
          ELSE last.symbols = <<>>

=============================================================================
